---------------------------- MODULE Spec2Model ----------------------------
(***************************************************************************)
(* A model of PKIsensee::Mp3TagData (Mp3TagData.cpp / Mp3TagData.h /       *)
(* ID3v2Frames.h / Mp3BaseTagData.h): one tag store object, the file it    *)
(* loads and rewrites, and the operations LoadTagData, SetText,            *)
(* SetComment and Write.  Bytes are the integers 0..255; a buffer, a       *)
(* string and the file are sequences of bytes.  Asserts are compiled out   *)
(* (NDEBUG), so verify(e) only evaluates e.                                *)
(***************************************************************************)
EXTENDS Integers, Sequences, FiniteSets, TLC

VARIABLES
  file,               \* the bytes of the file at path_
  fileHeader_,        \* ID3v2FileHeader, its 10 bytes as laid out in memory
  audioBufferOffset_, \* uint32_t
  id3FrameBuffer_,    \* std::vector<uint8_t>, elements [0, size())
  id3Slack,           \* bytes of id3FrameBuffer_'s allocation past size()
  oobByte,            \* what a read past the allocation yields
  apeFrameBuffer_,    \* std::vector<uint8_t>
  apeTags_,           \* the APE items recorded, 1-based positions in apeFrameBuffer_
  frames_,            \* std::vector<ID3Frame>
  textFrames_,        \* std::vector<FramePos>, 1-based positions in frames_
  commentFrames_,     \* std::vector<FramePos>
  isDirty_,           \* bool
  call,               \* the last public call: its name, arguments, result
  load,               \* the LoadTagData call under way, when taken step by step
  faults,             \* I/O calls that may still fail
  edits,              \* SetText/SetComment calls made so far
  writes              \* Write calls of a dirty store made so far

vars == << file, fileHeader_, audioBufferOffset_, id3FrameBuffer_, id3Slack,
           oobByte, apeFrameBuffer_, apeTags_, frames_, textFrames_, commentFrames_,
           isDirty_, call, load, faults, edits, writes >>

---------------------------------------------------------------------------
(* Sizes of the packed structures and the constants of the sources.        *)

kFileHeaderSize == 10
kFrameHdrSize == 10
kFrameIDCharCount == 4
kMajorVersionWith8BitSize == 3
kPaddingBytes == 2048
kBacktrackBufferSize == 4096
kFlaggedForDelete == 1
kNoApeHeader == -1
kInvalidFramePos == -1
kTextOffset == 11
kCommentTextOffset == 14
kBomBytes == 2
kWideCharBytes == 2

\* assert( frameSectionSize < ( 1024 * 1024 ) ), which a release build leaves out
kReasonableSectionSize == 1048576

kApeHeaderSize == 32
kApeItemCountOffset == 16
kApeItemKeyOffset == 8
kMaxKeySize == 255

kFlagExtended == 64
kFlagExperimental == 32
kFlagsRemaining == 15

Pow2(n) == 2 ^ n

(* uint32_t.  TLC's integers are 32-bit signed, so a 32-bit word w is held *)
(* as the int32_t with the same bits: w itself below 2^31, w - 2^32 from   *)
(* 2^31 on.  Sums and differences modulo 2^32 are then the plain ones as   *)
(* long as they stay in TLC's range (TLC stops with an overflow error      *)
(* where they do not, it never wraps silently); an unsigned comparison     *)
(* has to take a negative number for a large one.                          *)
U32(n) == n

\* the word with bytes b3 (most significant) .. b0
Word32(b3, b2, b1, b0) ==
  (IF b3 >= 128 THEN b3 - 256 ELSE b3) * Pow2(24) + b2 * Pow2(16) + b1 * Pow2(8) + b0

\* byte k (0 the least significant) of word w
ByteOf(w, k) == (w \div Pow2(8 * k)) % 256

\* a >= b for a uint32_t a and a size b below 2^31
AtOrPast(a, b) == a < 0 \/ a >= b

kID3String == << 73, 68, 51 >>                       \* "ID3"
kEnglishLanguage == << 101, 110, 103 >>              \* "eng"
kApeTag == << 65, 80, 69, 84, 65, 71, 69, 88 >>      \* "APETAGEX"
kFlaggedForDeleteTag == << 68, 69, 76, 32 >>         \* "DEL "

Min(a, b) == IF a < b THEN a ELSE b
Max(a, b) == IF a < b THEN b ELSE a

\* n zero bytes (a vector's value-initialised elements)
kZeroPage == [i \in 1..kBacktrackBufferSize |-> 0]
Zeros(n) ==
  IF n <= Len(kZeroPage) THEN SubSeq(kZeroPage, 1, n) ELSE [i \in 1..n |-> 0]

\* whether bit `bit` of x is set
BitSet(x, bit) == (x \div Pow2(bit)) % 2 = 1

\* x & mask for two bytes
BitAnd(x, mask) ==
  LET both(bit) == IF BitSet(x, bit) /\ BitSet(mask, bit) THEN Pow2(bit) ELSE 0
  IN  both(0) + both(1) + both(2) + both(3) + both(4) + both(5) + both(6) + both(7)

---------------------------------------------------------------------------
(* Mp3FrameType and the kMp3FrameID table (the types the model uses).      *)

TextTypes == { "Title", "Album" }

GetFrameID(frameType) ==
  CASE frameType = "Title"   -> << 84, 73, 84, 50 >>   \* "TIT2"
    [] frameType = "Album"   -> << 84, 65, 76, 66 >>   \* "TALB"
    [] frameType = "Comment" -> << 67, 79, 77, 77 >>   \* "COMM"

---------------------------------------------------------------------------
(* IntegerCodec: ReadID3Int<kBits> / WriteID3Int<kBits>.  The argument and *)
(* result "raw" is the uint32_t as its four bytes in file order.           *)

\* Util::ToBigEndian: the four bytes in file order as a number
ToBigEndian(raw) == Word32(raw[1], raw[2], raw[3], raw[4])

\* Util::PackBits<kBits>: keep the low kBits of each byte, close the gaps
PackBits(kBits, v) ==
  LET b(k) == ByteOf(v, k) % Pow2(kBits)
      top == IF b(3) >= Pow2(31 - 3 * kBits) THEN b(3) - Pow2(32 - 3 * kBits) ELSE b(3)
  IN  top * Pow2(3 * kBits) + b(2) * Pow2(2 * kBits) + b(1) * Pow2(kBits) + b(0)

\* Util::UnpackBits<kBits>: spread the low 4*kBits bits over four bytes
UnpackBits(kBits, v) ==
  LET g(k) == (v \div Pow2(kBits * k)) % Pow2(kBits)
  IN  Word32(g(3), g(2), g(1), g(0))

FromBigEndian(v) == << ByteOf(v, 3), ByteOf(v, 2), ByteOf(v, 1), ByteOf(v, 0) >>

ReadID3Int(kBits, raw) == PackBits(kBits, ToBigEndian(raw))

\* a variant of WriteID3Int that stores the number as it is, 8 bits to a byte
WritePlain(kBits, nativeInt) == FromBigEndian(nativeInt)

WriteID3Int(kBits, nativeInt) == FromBigEndian(UnpackBits(kBits, nativeInt))

---------------------------------------------------------------------------
(* ID3v2FileHeader accessors over the 10 header bytes.                     *)

GetHeaderID(hdr) == SubSeq(hdr, 1, 3)
GetMajorVersion(hdr) == hdr[4]
GetMinorVersion(hdr) == hdr[5]
GetFlags(hdr) == hdr[6]
GetSize(hdr) == ReadID3Int(7, SubSeq(hdr, 7, 10))
SetSize(hdr, newSize) == SubSeq(hdr, 1, 6) \o WriteID3Int(7, newSize)

\* variants of the two tests below (a version test without the 0xFF cases,
\* a flag test that allows no flag at all)
ObsoleteVersion(hdr) == GetMajorVersion(hdr) < kMajorVersionWith8BitSize
AnyFlag(hdr) == GetFlags(hdr) # 0

\* Mp3TagData::IsValidFileHeader
BadVersion(hdr) ==
  \/ GetMajorVersion(hdr) < 3
  \/ GetMajorVersion(hdr) = 255
  \/ GetMinorVersion(hdr) = 255

BadFlags(hdr) ==
  \/ BitAnd(GetFlags(hdr), kFlagExtended) # 0
  \/ BitAnd(GetFlags(hdr), kFlagExperimental) # 0
  \/ BitAnd(GetFlags(hdr), kFlagsRemaining) # 0

IsValidFileHeader(hdr) ==
  /\ GetHeaderID(hdr) = kID3String
  /\ ~BadVersion(hdr)
  /\ ~BadFlags(hdr)

---------------------------------------------------------------------------
(* Memory behind id3FrameBuffer_.data(): the vector's elements, then the   *)
(* rest of its allocation (what a shrinking resize() left there), then     *)
(* whatever lies past the allocation.  i is a 1-based index.  The rest of  *)
(* the allocation is held as its bytes up to the last that is not 0 and    *)
(* the number of zero bytes after them.                                    *)

NoSlack == [bytes |-> << >>, zeros |-> 0]

\* the rest of an allocation that holds the bytes `tail`, then `zeros` zero bytes
SlackOf(tail, zeros) ==
  LET keep == { i \in 1..Len(tail) : tail[i] # 0 }
      last == IF keep = { } THEN 0 ELSE CHOOSE i \in keep : \A j \in keep : j <= i
  IN  [bytes |-> SubSeq(tail, 1, last), zeros |-> zeros + Len(tail) - last]

SlackSize(slack) == Len(slack.bytes) + slack.zeros

Memory(buf, slack, oob) == [buf |-> buf, slack |-> slack, oob |-> oob]

RawByte(mem, i) ==
  IF i <= Len(mem.buf) THEN mem.buf[i]
  ELSE IF i <= Len(mem.buf) + Len(mem.slack.bytes) THEN mem.slack.bytes[i - Len(mem.buf)]
  ELSE IF i <= Len(mem.buf) + SlackSize(mem.slack) THEN 0
  ELSE mem.oob

---------------------------------------------------------------------------
(* Mp3TagData::ID3Frame: rawFrame is the 1-based index in id3FrameBuffer_  *)
(* of the frame's first byte, 0 for nullptr; newFrame is the FrameBuf.     *)

ID3Frame(rawFrame) == [rawFrame |-> rawFrame, newFrame |-> << >>]

IsUnmodified(fr) == Len(fr.newFrame) = 0
IsMarkedForDelete(fr) == Len(fr.newFrame) = kFlaggedForDelete
IsReplaced(fr) == Len(fr.newFrame) > kFlaggedForDelete

\* byte k (0-based) of ID3Frame::GetData()
DataByte(mem, fr, k) ==
  IF IsReplaced(fr)
  THEN IF k < Len(fr.newFrame) THEN fr.newFrame[k + 1] ELSE mem.oob
  ELSE RawByte(mem, fr.rawFrame + k)

\* n bytes of memory from 1-based index i on
RawBytes(mem, i, n) == [k \in 1..n |-> RawByte(mem, i + k - 1)]

\* n bytes of ID3Frame::GetData() from 0-based offset `from` on
DataBytes(mem, fr, from, n) ==
  IF IsReplaced(fr)
  THEN LET inside == SubSeq(fr.newFrame, from + 1, Min(from + n, Len(fr.newFrame)))
       IN  inside \o [k \in 1..(n - Len(inside)) |-> mem.oob]
  ELSE RawBytes(mem, fr.rawFrame + from, n)

\* ID3Frame::GetFrameID
FrameGetFrameID(mem, fr) ==
  IF IsMarkedForDelete(fr) THEN kFlaggedForDeleteTag
  ELSE DataBytes(mem, fr, 0, kFrameIDCharCount)

IsFrameID(mem, fr, frameType) == FrameGetFrameID(mem, fr) = GetFrameID(frameType)
FrameIsTextFrame(mem, fr) == DataByte(mem, fr, 0) = 84          \* 'T'
FrameIsCommentFrame(mem, fr) == IsFrameID(mem, fr, "Comment")

\* ID3v2FrameHdr::GetSize
HdrGetSize(sizeBytes, majorVersion) ==
  IF majorVersion = kMajorVersionWith8BitSize
  THEN ReadID3Int(8, sizeBytes)
  ELSE ReadID3Int(7, sizeBytes)

\* Mp3TagData::GetFrameSize / GetFrameBytes of the frame at GetData()
GetFrameSize(mem, fr, version) == HdrGetSize(DataBytes(mem, fr, 4, 4), version)
GetFrameBytes(mem, fr, version) == U32(kFrameHdrSize + GetFrameSize(mem, fr, version))

\* a variant of GetWriteBytes without the case of a frame flagged for delete
WriteBytesOfAny(mem, fr, version) ==
  IF Len(fr.newFrame) = 0 THEN GetFrameBytes(mem, fr, version) ELSE Len(fr.newFrame)

\* ID3Frame::GetWriteBytes
GetWriteBytes(mem, fr, version) ==
  CASE Len(fr.newFrame) = 0 -> GetFrameBytes(mem, fr, version)
    [] Len(fr.newFrame) = kFlaggedForDelete -> 0
    [] OTHER -> Len(fr.newFrame)

\* a variant of FlagToDelete that empties newFrame
FlagByClearing(fr) == [fr EXCEPT !.newFrame = << >>]

\* ID3Frame::FlagToDelete: newFrame.resize( 1 )
FlagToDelete(fr) ==
  [fr EXCEPT !.newFrame = IF Len(@) = 0 THEN << 0 >> ELSE << @[1] >>]

---------------------------------------------------------------------------
(* Mp3BaseTagData::IsValidFrame / IsValidFrameID                           *)

IsUpperAlphaNum(c) == (c >= 48 /\ c <= 57) \/ (c >= 65 /\ c <= 90)

IsValidFrameID(frameID) ==
  /\ Len(frameID) = kFrameIDCharCount
  /\ \A k \in 1..Len(frameID) : IsUpperAlphaNum(frameID[k])

IsValidFrame(mem, rawFrame) ==
  /\ RawByte(mem, rawFrame) # 0
  /\ IsValidFrameID([k \in 1..kFrameIDCharCount |-> RawByte(mem, rawFrame + k - 1)])

\* offset after ParseID3Frame has accepted the frame at offset
NextOffset(mem, version, offset) ==
  U32(offset + GetFrameBytes(mem, ID3Frame(offset + 1), version))

(* Whether the loop of ParseID3Frames, at offset after the offsets `seen`, *)
(* comes to an offset a second time.  ParseID3Frame has no state but the   *)
(* offset, so the loop then repeats for ever, appending to frames_.        *)
RECURSIVE ParseRepeats(_, _, _, _)
ParseRepeats(mem, version, offset, seen) ==
  IF AtOrPast(offset, Len(mem.buf)) THEN FALSE
  ELSE IF ~IsValidFrame(mem, offset + 1) THEN FALSE
  ELSE IF offset \in seen THEN TRUE
  ELSE ParseRepeats(mem, version, NextOffset(mem, version, offset), seen \cup { offset })

(* Mp3TagData::ParseID3Frame in the loop of ParseID3Frames: offset is the  *)
(* 0-based uint32_t parse offset, acc the frames_ built so far.  A loop    *)
(* that repeats is cut after its first lap.                                *)
RECURSIVE ParseID3Frame(_, _, _, _)
ParseID3Frame(mem, version, offset, acc) ==
  IF AtOrPast(offset, Len(mem.buf)) THEN acc
  ELSE IF ~IsValidFrame(mem, offset + 1) THEN acc
  ELSE IF \E i \in 1..Len(acc) : acc[i].rawFrame = offset + 1 THEN acc
  ELSE LET frame == ID3Frame(offset + 1)
       IN  ParseID3Frame(mem, version, NextOffset(mem, version, offset),
                         Append(acc, frame))

(* The 0-based end of the bytes ParseID3Frame reads from offset on: the     *)
(* first byte, the frame ID when that byte is not 0, the size field when   *)
(* the ID is valid.                                                        *)
RECURSIVE ParseReadEndAfter(_, _, _, _)
ParseReadEndAfter(mem, version, offset, seen) ==
  IF AtOrPast(offset, Len(mem.buf)) \/ offset \in seen THEN 0
  ELSE IF RawByte(mem, offset + 1) = 0 THEN offset + 1
  ELSE IF ~IsValidFrame(mem, offset + 1) THEN offset + kFrameIDCharCount
  ELSE Max(offset + kFrameIDCharCount + 4,
           ParseReadEndAfter(mem, version, NextOffset(mem, version, offset),
                             seen \cup { offset }))

ParseReadEnd(mem, version, offset) == ParseReadEndAfter(mem, version, offset, { })

\* the positions, in order, at which `marks` is TRUE
Positions(marks) == SelectSeq([i \in 1..Len(marks) |-> i], LAMBDA i : marks[i])

\* Mp3TagData::ParseID3Frames: the frame list and the two sublists
ParseID3Frames(mem, version) ==
  LET frs == ParseID3Frame(mem, version, 0, << >>)
      isText == [i \in 1..Len(frs) |-> FrameIsTextFrame(mem, frs[i])]
      isComm == [i \in 1..Len(frs) |-> ~isText[i] /\ FrameIsCommentFrame(mem, frs[i])]
  IN  [frames |-> frs,
       text   |-> Positions(isText),
       comm   |-> Positions(isComm)]

---------------------------------------------------------------------------
(* TextCodec: ID3v2FrameHdr::GetTextBytes, ID3v2TextFrame::GetText,        *)
(* ID3v2CommentFrame::GetText and the string utilities they call.          *)

\* StrUtil::ToTrimmedTrailing( value, "\0" )
ToTrimmedTrailing(value) ==
  LET keep == { i \in 1..Len(value) : value[i] # 0 }
  IN  IF keep = {} THEN << >>
      ELSE SubSeq(value, 1, CHOOSE i \in keep : \A j \in keep : j <= i)

\* StringUtil::GetUtf8 of one UTF-16 code unit (no surrogate pairs)
Utf8OfUnit(u) ==
  IF u < 128 THEN << u >>
  ELSE IF u < 2048 THEN << 192 + (u \div 64), 128 + (u % 64) >>
  ELSE << 224 + (u \div 4096), 128 + ((u \div 64) % 64), 128 + (u % 64) >>

RECURSIVE GetUtf8(_)
GetUtf8(units) ==
  IF units = << >> THEN << >> ELSE Utf8OfUnit(Head(units)) \o GetUtf8(Tail(units))

\* ID3TextEncoding: ANSI = 0, UTF16 = 1, UTF16BE = 2, UTF8 = 3
IsWideString(textEncoding) == textEncoding = 1 \/ textEncoding = 2

\* ID3v2FrameHdr::GetTextBytes; offset is textStart - rawFrame
GetTextBytes(frameSize, offset) ==
  LET textBytes == U32(kFrameHdrSize + frameSize)
  IN  IF offset > textBytes THEN 0 ELSE textBytes - offset

\* ID3v2String::GetTextWide: charCount wchar_t (little endian) at byte `from`
GetTextWide(mem, fr, from, charCount) ==
  [k \in 1..charCount |->
     DataByte(mem, fr, from + kWideCharBytes * (k - 1))
     + 256 * DataByte(mem, fr, from + kWideCharBytes * (k - 1) + 1)]

\* ID3v2TextFrame::GetText
TextFrameGetText(mem, fr, version) ==
  LET isWideString == IsWideString(DataByte(mem, fr, kFrameHdrSize))
      offset == IF isWideString THEN kTextOffset + kBomBytes ELSE kTextOffset
      byteCount == GetTextBytes(GetFrameSize(mem, fr, version), offset)
      value == IF isWideString
               THEN GetUtf8(GetTextWide(mem, fr, offset, byteCount \div kWideCharBytes))
               ELSE DataBytes(mem, fr, offset, byteCount)
  IN  ToTrimmedTrailing(value)

\* the index of the first NUL of str, 0 when it holds none
FirstNul(str) ==
  LET nuls == { i \in 1..Len(str) : str[i] = 0 }
  IN  IF nuls = {} THEN 0 ELSE CHOOSE i \in nuls : \A j \in nuls : i <= j

\* the value a comment whose description has no terminator inside the text
\* bytes yields: the scan `for( ; *start++; )` has left the string
kScanOverrun == << -1 >>

\* ID3v2CommentFrame::GetText
CommentFrameGetText(mem, fr, version) ==
  LET isWideString == IsWideString(DataByte(mem, fr, kFrameHdrSize))
      offset == IF isWideString THEN kCommentTextOffset + kBomBytes
                ELSE kCommentTextOffset
      byteCount == GetTextBytes(GetFrameSize(mem, fr, version), offset)
      str == IF isWideString
             THEN GetTextWide(mem, fr, offset, byteCount \div kWideCharBytes)
             ELSE DataBytes(mem, fr, offset, byteCount)
      nul == FirstNul(str)
      \* narrow: the text follows the NUL; wide: the NUL, then the BOM
      start == IF isWideString THEN nul + 2 ELSE nul + 1
  IN  IF nul = 0 \/ start > Len(str) + 1 THEN kScanOverrun
      ELSE ToTrimmedTrailing(IF isWideString
                             THEN GetUtf8(SubSeq(str, start, Len(str)))
                             ELSE SubSeq(str, start, Len(str)))

\* ID3v2FrameHdr::SetHeader: frameID, the size field, two zero flag bytes
SetHeader(frameID, newFrameSize, majorVersion) ==
  frameID
  \o (IF majorVersion = kMajorVersionWith8BitSize
      THEN WriteID3Int(8, newFrameSize) ELSE WriteID3Int(7, newFrameSize))
  \o << 0, 0 >>

\* ID3v2TextFrame::GetFrameSize: sizeof(ID3v2TextFrame) - sizeof(ID3v2String)
\* + newText.size()
TextGetFrameSize(newText) == kTextOffset + Len(newText)

\* a variant of CommentGetFrameSize that leaves no room for the description
CommentSizeNoDescription(newComment) == kCommentTextOffset + Len(newComment)

\* ID3v2CommentFrame::GetFrameSize: header, encoding, language, the empty
\* description's NUL, the comment
CommentGetFrameSize(newComment) == kCommentTextOffset + 1 + Len(newComment)

\* the buffer SetText leaves in newFrame: SetHeader, then ID3v2TextFrame::SetText
NewTextFrame(frameID, newStr, majorVersion) ==
  SetHeader(frameID, U32(TextGetFrameSize(newStr) - kFrameHdrSize), majorVersion)
  \o << 0 >> \o newStr

\* the buffer SetComment leaves in newFrame
NewCommentFrame(newComment, majorVersion) ==
  SetHeader(GetFrameID("Comment"),
            U32(CommentGetFrameSize(newComment) - kFrameHdrSize), majorVersion)
  \o << 0 >> \o kEnglishLanguage \o << 0 >> \o newComment

---------------------------------------------------------------------------
(* The tag store as a value: the members of Mp3TagData.  The operations    *)
(* below take the store they act on and give the store they leave.         *)

Store ==
  [hdr |-> fileHeader_, aud |-> audioBufferOffset_, buf |-> id3FrameBuffer_,
   slack |-> id3Slack, oob |-> oobByte, ape |-> apeFrameBuffer_,
   tags |-> apeTags_,
   frames |-> frames_, text |-> textFrames_, comm |-> commentFrames_,
   dirty |-> isDirty_]

Mem(s) == Memory(s.buf, s.slack, s.oob)
Version(s) == GetMajorVersion(s.hdr)

GetFrameCount(s) == Len(s.frames)
GetCommentCount(s) == Len(s.comm)
IsDirty(s) == s.dirty
GetAudioBufferOffset(s) == s.aud

\* Mp3TagData::GetTextFrameReferencePos: std::ranges::find_if over textFrames_
GetTextFrameReferencePos(s, frameType) ==
  LET hits == { k \in 1..Len(s.text) : IsFrameID(Mem(s), s.frames[s.text[k]], frameType) }
  IN  IF hits = {} THEN kInvalidFramePos
      ELSE s.text[CHOOSE k \in hits : \A j \in hits : k <= j]

\* Mp3TagData::GetText
GetText(s, frameType) ==
  LET framePos == GetTextFrameReferencePos(s, frameType)
  IN  IF framePos = kInvalidFramePos THEN << >>
      ELSE TextFrameGetText(Mem(s), s.frames[framePos], Version(s))

\* Mp3TagData::GetCommentFrameReferencePos (i is 0-based)
GetCommentFrameReferencePos(s, i) ==
  IF i >= Len(s.comm) THEN kInvalidFramePos ELSE s.comm[i + 1]

\* Mp3TagData::GetComment
GetComment(s, i) ==
  IF i >= Len(s.comm) THEN << >>
  ELSE CommentFrameGetText(Mem(s), s.frames[GetCommentFrameReferencePos(s, i)], Version(s))

\* std::vector::erase of the first element equal to v (std::ranges::find)
EraseFirst(seq, v) ==
  LET hits == { k \in 1..Len(seq) : seq[k] = v }
  IN  IF hits = {} THEN seq
      ELSE LET k == CHOOSE x \in hits : \A y \in hits : x <= y
           IN  SubSeq(seq, 1, k - 1) \o SubSeq(seq, k + 1, Len(seq))

\* a variant of DeleteTextFrame that sets isDirty_ before looking for the frame
DeleteMarksDirty(s, frameType) ==
  LET framePos == GetTextFrameReferencePos(s, frameType)
  IN  IF framePos = kInvalidFramePos THEN [s EXCEPT !.dirty = TRUE]
      ELSE [s EXCEPT !.frames[framePos] = FlagToDelete(@),
                     !.text = EraseFirst(@, framePos),
                     !.dirty = TRUE]

\* a variant of DeleteTextFrame that leaves the frame in textFrames_
FlagTextOnly(s, frameType) ==
  LET framePos == GetTextFrameReferencePos(s, frameType)
  IN  IF framePos = kInvalidFramePos THEN s
      ELSE [s EXCEPT !.frames[framePos] = FlagToDelete(@), !.dirty = TRUE]

\* Mp3TagData::DeleteTextFrame
DeleteTextFrame(s, frameType) ==
  LET framePos == GetTextFrameReferencePos(s, frameType)
  IN  IF framePos = kInvalidFramePos THEN s
      ELSE [s EXCEPT !.frames[framePos] = FlagToDelete(@),
                     !.text = EraseFirst(@, framePos),
                     !.dirty = TRUE]

\* a variant of DeleteCommentFrame that sets isDirty_ before the test of i
DeleteCommentMarksDirty(s, i) ==
  IF i >= Len(s.comm) THEN [s EXCEPT !.dirty = TRUE]
  ELSE LET framePos == GetCommentFrameReferencePos(s, i)
       IN  [s EXCEPT !.frames[framePos] = FlagToDelete(@),
                     !.comm = EraseFirst(@, framePos),
                     !.dirty = TRUE]

\* a variant of DeleteCommentFrame that leaves the frame in commentFrames_
FlagCommentOnly(s, i) ==
  IF i >= Len(s.comm) THEN s
  ELSE [s EXCEPT !.frames[GetCommentFrameReferencePos(s, i)] = FlagToDelete(@),
                 !.dirty = TRUE]

\* Mp3TagData::DeleteCommentFrame
DeleteCommentFrame(s, i) ==
  IF i >= Len(s.comm) THEN s
  ELSE LET framePos == GetCommentFrameReferencePos(s, i)
       IN  [s EXCEPT !.frames[framePos] = FlagToDelete(@),
                     !.comm = EraseFirst(@, framePos),
                     !.dirty = TRUE]

\* Mp3TagData::SetText
SetText(s, frameType, newStr) ==
  IF newStr = << >> THEN DeleteTextFrame(s, frameType)
  ELSE LET found == GetTextFrameReferencePos(s, frameType)
           absent == found = kInvalidFramePos
           frames1 == IF absent THEN Append(s.frames, ID3Frame(0)) ELSE s.frames
           framePos == IF absent THEN Len(frames1) ELSE found
       IN  [s EXCEPT
              !.frames = [frames1 EXCEPT ![framePos].newFrame =
                            NewTextFrame(GetFrameID(frameType), newStr, Version(s))],
              !.text = IF absent THEN Append(@, framePos) ELSE @,
              !.dirty = TRUE]

\* Mp3TagData::SetComment (i is 0-based, i <= GetCommentCount())
SetComment(s, i, newComment) ==
  IF newComment = << >> THEN DeleteCommentFrame(s, i)
  ELSE LET isNew == i = Len(s.comm)
           frames1 == IF isNew THEN Append(s.frames, ID3Frame(0)) ELSE s.frames
           comm1 == IF isNew THEN Append(s.comm, Len(frames1)) ELSE s.comm
           framePos == comm1[i + 1]
       IN  [s EXCEPT
              !.frames = [frames1 EXCEPT ![framePos].newFrame =
                            NewCommentFrame(newComment, Version(s))],
              !.comm = comm1,
              !.dirty = TRUE]

---------------------------------------------------------------------------
(* The File collaborator.  A call that fails does nothing.  `fault` names  *)
(* the one I/O call of an operation that fails, "none" when all succeed.   *)

LoadFaults == { "open", "readHeader", "readFrames", "readSearch", "seekApe", "readApe" }
WriteFaults == { "open1", "open2", "writeHeader", "seekAudio", "readAudio",
                 "seekFrames", "writeFrame", "writePad", "writeAudio" }

\* File::Read of up to n bytes at 0-based position pos
ReadAt(f, pos, n) == SubSeq(f, pos + 1, Min(pos + n, Len(f)))

\* File::Write of data at 0-based position pos
WriteAt(f, pos, data) ==
  SubSeq(f, 1, pos) \o data \o SubSeq(f, pos + Len(data) + 1, Len(f))

\* std::string::find( kApeTag ): 0-based position of the first match, -1 for npos
Find(searchBuffer) ==
  LET n == Len(kApeTag)
      hits == { i \in 1..(Len(searchBuffer) - n + 1) :
                  /\ searchBuffer[i] = kApeTag[1]
                  /\ SubSeq(searchBuffer, i, i + n - 1) = kApeTag }
  IN  IF hits = {} THEN -1
      ELSE (CHOOSE i \in hits : \A j \in hits : i <= j) - 1

(* The while loop of Mp3TagData::FindApeHeaderOffset.  searchBuffer keeps  *)
(* what earlier reads left in it where this read does not reach.           *)
RECURSIVE FindApeLoop(_, _, _, _, _)
FindApeLoop(f, filePos, searchBuffer, readLength, failRead) ==
  IF filePos <= 0 THEN kNoApeHeader
  ELSE IF failRead THEN kNoApeHeader
  ELSE LET data == ReadAt(f, filePos, readLength)
           sb == data \o SubSeq(searchBuffer, Len(data) + 1, Len(searchBuffer))
           findPos == Find(sb)
           nextLength == kBacktrackBufferSize + Len(kApeTag)
       IN  IF findPos # -1 THEN filePos + findPos
           ELSE FindApeLoop(f,
                            IF kBacktrackBufferSize > filePos THEN 0
                            ELSE filePos - kBacktrackBufferSize,
                            sb \o Zeros(nextLength - Len(sb)),
                            nextLength, FALSE)

\* Mp3TagData::FindApeHeaderOffset; failRead: the first Read fails
FindApeHeaderOffset(f, failRead) ==
  LET fileSize == Len(f)
      filePos == IF kBacktrackBufferSize > fileSize THEN 0
                 ELSE fileSize - kBacktrackBufferSize
  IN  FindApeLoop(f, filePos, Zeros(kBacktrackBufferSize), kBacktrackBufferSize, failRead)

\* a little-endian uint32_t member of a packed APE structure
ApeUInt32(ape, oob, offset) ==
  LET b(k) == IF offset + k <= Len(ape) THEN ape[offset + k] ELSE oob
  IN  Word32(b(4), b(3), b(2), b(1))

\* APEv2TagItem::GetKey().size(): the characters before the NUL, at most 255
ApeKeySize(ape, oob, offset) ==
  LET c(k) == IF offset + kApeItemKeyOffset + k + 1 <= Len(ape)
              THEN ape[offset + kApeItemKeyOffset + k + 1] ELSE oob
      ends == { k \in 0..kMaxKeySize : c(k) = 0 \/ k = kMaxKeySize }
  IN  CHOOSE k \in ends : \A j \in ends : k <= j

\* APEv2TagItem::GetTagSize: sizeof( *this ) + GetKey().size() + valueSize_
ApeGetTagSize(ape, oob, offset) ==
  U32(kApeItemKeyOffset + 1 + ApeKeySize(ape, oob, offset) + ApeUInt32(ape, oob, offset))

(* Mp3TagData::ParseAPETag in the loop of ParseAPETags: offset is the      *)
(* 0-based parse offset, itemCount the items still expected.               *)
RECURSIVE ParseAPETag(_, _, _, _, _)
ParseAPETag(ape, oob, offset, itemCount, tags) ==
  IF itemCount = 0 \/ AtOrPast(offset, Len(ape)) THEN tags
  ELSE ParseAPETag(ape, oob, U32(offset + ApeGetTagSize(ape, oob, offset)),
                   itemCount - 1, Append(tags, offset + 1))

\* Mp3TagData::ParseAPETags: apeTags_ is appended to, never emptied
ParseAPETags(ape, oob, tags) ==
  IF ape = << >> THEN tags
  ELSE ParseAPETag(ape, oob, kApeHeaderSize,
                   ApeUInt32(ape, oob, kApeItemCountOffset), tags)

\* what an operation gives back: the store and file it leaves, its result,
\* the step it returned at, and whether the faulted call was reached
Outcome(s, f, ret, stage, hit) ==
  [store |-> s, file |-> f, ret |-> ret, stage |-> stage, hit |-> hit]

\* a variant of LoadReset that empties the two buffers only
LoadResetBuffers(s, oob) ==
  [s EXCEPT !.buf = << >>, !.slack = NoSlack, !.oob = oob, !.ape = << >>]

\* the resizes and isDirty_ = false with which LoadTagData begins
LoadReset(s, oob) ==
  [s EXCEPT !.buf = << >>, !.slack = NoSlack, !.oob = oob, !.ape = << >>,
            !.frames = << >>, !.text = << >>, !.comm = << >>, !.dirty = FALSE]

(* Mp3TagData::LoadTagData on store s and file f.  oob is what lies past   *)
(* the new frame buffer's allocation.                                      *)
LoadTagData(s, f, fault, oob) ==
  LET s0 == LoadReset(s, oob)
      hdr == SubSeq(f, 1, kFileHeaderSize)
      s1 == [s0 EXCEPT !.hdr = hdr]
      hit == fault = "readSearch" /\ Len(f) > kBacktrackBufferSize
      \* ParseID3Frames and ParseAPETags on the buffers the reads left; when
      \* the frame loop never ends there is no return and frames_ grows
      \* until memory runs out
      ParsedFrom(s3, buf, slack, ape, parsed, diverges) ==
        LET s4 == [s3 EXCEPT !.buf = buf, !.slack = slack, !.ape = ape,
                             !.frames = parsed.frames, !.text = parsed.text,
                             !.comm = parsed.comm]
        IN  IF diverges THEN Outcome(s4, f, FALSE, "diverges", hit)
            ELSE Outcome([s4 EXCEPT !.tags = ParseAPETags(ape, oob, @)], f, TRUE, "ok", hit)
      \* the frame parse on id3FrameBuffer_ and what its allocation holds after it
      Sliced(s3, buf, slack, ape) ==
        ParsedFrom(s3, buf, slack, ape,
                   ParseID3Frames(Memory(buf, slack, oob), GetMajorVersion(hdr)),
                   ParseRepeats(Memory(buf, slack, oob), GetMajorVersion(hdr), 0, { }))
      \* id3FrameBuffer_ of bytesRead bytes
      Resized(s3, frameSectionSize, frameData, buf, ape) ==
        Sliced(s3, buf,
               SlackOf(SubSeq(frameData, Len(buf) + 1, Len(frameData)),
                       frameSectionSize - Max(Len(buf), Len(frameData))),
               ape)
      \* the reads, from a header that is valid
      Reads(frameSectionSize, frameData, apeStart) ==
        LET \* the assert on frameSectionSize is no statement of a release build
            s2 == [s1 EXCEPT !.aud = U32(kFileHeaderSize + frameSectionSize)]
            \* id3FrameBuffer_ after resize( frameSectionSize ) and the Read
            full == frameData \o Zeros(frameSectionSize - Len(frameData))
            s3 == [s2 EXCEPT !.buf = full]
            hasApe == apeStart # kNoApeHeader
            apeHeaderBytes == U32(Len(f) - apeStart)
            \* bytesRead is shared by the frame read and the APE read
            bytesRead == IF hasApe THEN apeHeaderBytes ELSE Len(frameData)
        IN  IF fault = "readFrames"
            THEN Outcome([s2 EXCEPT !.buf = Zeros(frameSectionSize)], f, FALSE,
                         "readFrames", TRUE)
            ELSE IF hasApe /\ fault \in { "seekApe", "readApe" }
            THEN Outcome([s3 EXCEPT !.ape = Zeros(apeHeaderBytes)], f, FALSE,
                         "readApe", TRUE)
            ELSE Resized(s3, frameSectionSize, frameData,
                         IF bytesRead < frameSectionSize
                         THEN SubSeq(full, 1, bytesRead) ELSE full,
                         IF hasApe THEN ReadAt(f, apeStart, apeHeaderBytes) ELSE << >>)
      Sized(frameSectionSize) ==
        Reads(frameSectionSize, ReadAt(f, kFileHeaderSize, frameSectionSize),
              FindApeHeaderOffset(f, fault = "readSearch"))
  IN  IF fault = "open" THEN Outcome(s0, f, FALSE, "open", TRUE)
      ELSE IF fault = "readHeader" THEN Outcome(s0, f, FALSE, "readHeader", TRUE)
      ELSE IF ~IsValidFileHeader(hdr) THEN Outcome(s1, f, FALSE, "invalid", FALSE)
      ELSE Sized(GetSize(hdr))

(* Mp3TagData::LoadTagData taken in steps, for the task that closes the   *)
(* file while the frames are parsed.                                       *)

\* the header read, IsValidFileHeader and the frame-section read
LoadReadTag(s, f, fault) ==
  LET hdr == SubSeq(f, 1, kFileHeaderSize)
      frameSectionSize == GetSize(hdr)
      frameData == ReadAt(f, kFileHeaderSize, frameSectionSize)
      s1 == [s EXCEPT !.hdr = hdr]
      s2 == [s1 EXCEPT !.aud = U32(kFileHeaderSize + frameSectionSize)]
  IN  IF fault = "readHeader" THEN Outcome(s, f, FALSE, "readHeader", TRUE)
      ELSE IF ~IsValidFileHeader(hdr) THEN Outcome(s1, f, FALSE, "invalid", FALSE)
      ELSE IF fault = "readFrames"
           THEN Outcome([s2 EXCEPT !.buf = Zeros(frameSectionSize)], f, FALSE,
                        "readFrames", TRUE)
      ELSE Outcome([s2 EXCEPT !.buf = frameData \o Zeros(frameSectionSize - Len(frameData))],
                   f, TRUE, "readTag", FALSE)

\* bytesRead after the frame-section read
FrameBytesRead(f) == Len(ReadAt(f, kFileHeaderSize, GetSize(SubSeq(f, 1, kFileHeaderSize))))

\* FindApeHeaderOffset and the read of the APE block
LoadReadApe(s, f, fault) ==
  LET apeStart == FindApeHeaderOffset(f, fault = "readSearch")
      apeHeaderBytes == U32(Len(f) - apeStart)
      hit == fault = "readSearch" /\ Len(f) > kBacktrackBufferSize
  IN  IF apeStart = kNoApeHeader THEN Outcome(s, f, TRUE, "read", hit)
      ELSE IF fault \in { "seekApe", "readApe" }
           THEN Outcome([s EXCEPT !.ape = Zeros(apeHeaderBytes)], f, FALSE, "readApe", TRUE)
      ELSE Outcome([s EXCEPT !.ape = ReadAt(f, apeStart, apeHeaderBytes)], f, TRUE, "read", hit)

\* bytesRead after the APE read, which is made only when a signature was found
ApeBytesRead(f, fault, bytesRead) ==
  LET apeStart == FindApeHeaderOffset(f, fault = "readSearch")
  IN  IF apeStart = kNoApeHeader THEN bytesRead ELSE U32(Len(f) - apeStart)

\* id3FrameBuffer_.resize( bytesRead ) when that is less, then ParseID3Frames
LoadParseFrames(s, bytesRead) ==
  LET buf == IF bytesRead < Len(s.buf) THEN SubSeq(s.buf, 1, bytesRead) ELSE s.buf
      slack == SlackOf(SubSeq(s.buf, Len(buf) + 1, Len(s.buf)), 0)
      parsed == ParseID3Frames(Memory(buf, slack, s.oob), GetMajorVersion(s.hdr))
  IN  [s EXCEPT !.buf = buf, !.slack = slack, !.frames = parsed.frames,
                !.text = parsed.text, !.comm = parsed.comm]

---------------------------------------------------------------------------
(* Mp3TagData::Write                                                       *)

\* std::ranges::fold_left over frames_ of GetWriteBytes
RECURSIVE SumWriteBytes(_, _, _, _)
SumWriteBytes(mem, frames, version, i) ==
  IF i > Len(frames) THEN 0
  ELSE GetWriteBytes(mem, frames[i], version) + SumWriteBytes(mem, frames, version, i + 1)

TotalWriteBytes(s) == SumWriteBytes(Mem(s), s.frames, Version(s), 1)

\* the bytes the frame loop writes: every frame with GetWriteBytes # 0, from
\* frame `i` on; skipFirst: the first of these writes fails
RECURSIVE FrameWrites(_, _, _, _, _)
FrameWrites(mem, frames, version, i, skipFirst) ==
  IF i > Len(frames) THEN << >>
  ELSE LET n == GetWriteBytes(mem, frames[i], version)
       IN  IF n = 0 THEN FrameWrites(mem, frames, version, i + 1, skipFirst)
           ELSE (IF skipFirst THEN << >> ELSE DataBytes(mem, frames[i], 0, n))
                \o FrameWrites(mem, frames, version, i + 1, FALSE)

\* a variant of PadBytes that pads nothing when the frames fit
PadOnlyOnGrowth(frameSectionSize, bufferSize) ==
  IF frameSectionSize > bufferSize THEN kPaddingBytes ELSE 0

\* a variant of PadBytes that pads every write with kPaddingBytes
PadAlways(frameSectionSize, bufferSize) == kPaddingBytes

\* Padding bytes depends on whether new frames will fit within existing space
PadBytes(frameSectionSize, bufferSize) ==
  IF frameSectionSize > bufferSize THEN kPaddingBytes
  ELSE bufferSize - frameSectionSize

\* whether Write reads the audio and APE data back before overwriting
ReadsAudio(frameSectionSize, bufferSize) == frameSectionSize > bufferSize

Write(s, f, fault, oob) ==
  LET version == Version(s)
      frameSectionSize == TotalWriteBytes(s)
      bufferSize == Len(s.buf)
      padBytes == PadBytes(frameSectionSize, bufferSize)
      hdr == SetSize(s.hdr, U32(frameSectionSize + padBytes))
      s1 == [s EXCEPT !.hdr = hdr]
      f1 == WriteAt(f, 0, hdr)
      grows == ReadsAudio(frameSectionSize, bufferSize)
      audioDataSize == U32(Len(f1) - bufferSize - kFileHeaderSize)
      pos == kFileHeaderSize + bufferSize
      audioRead == fault # "seekAudio" /\ fault # "readAudio"
      audioData == IF ~grows THEN << >>
                   ELSE IF audioRead
                        THEN LET d == ReadAt(f1, pos, audioDataSize)
                             IN  d \o Zeros(audioDataSize - Len(d))
                        ELSE Zeros(audioDataSize)
      \* the file position the frame loop starts at
      framePos == IF grows /\ fault = "seekFrames"
                  THEN Min(pos + audioDataSize, Len(f1))
                  ELSE kFileHeaderSize
      frameData == FrameWrites(Mem(s), s.frames, version, 1, fault = "writeFrame")
      padData == IF fault = "writePad" THEN << >> ELSE Zeros(padBytes)
      audioOut == IF fault = "writeAudio" THEN << >> ELSE audioData
      f2 == WriteAt(f1, framePos, frameData \o padData \o audioOut)
      hit == \/ fault = "open1"
             \/ grows /\ fault \in { "seekAudio", "readAudio", "seekFrames" }
             \/ fault = "writeFrame" /\ frameSectionSize > 0
             \/ fault = "writePad" /\ padBytes > 0
             \/ fault = "writeAudio" /\ audioData # << >>
      reload == LoadTagData(s1, f2, IF fault \in LoadFaults THEN fault ELSE "none", oob)
  IN  IF ~IsDirty(s) THEN Outcome(s, f, FALSE, "clean", FALSE)
      ELSE IF fault = "open2" THEN Outcome(s, f, FALSE, "open", TRUE)
      ELSE IF fault = "writeHeader" THEN Outcome(s1, f, FALSE, "writeHeader", TRUE)
      ELSE [reload EXCEPT !.hit = @ \/ hit]

---------------------------------------------------------------------------
(* The files the store is run on.                                          *)

MaxEdits == 2     \* SetText/SetComment calls in one run
MaxWrites == 1    \* Write calls of a dirty store in one run
MaxFaults == 1    \* I/O calls that fail in one run
LongAudioBytes == 4100
MaxApeTags == 3   \* APE items on record when a Load is still made

\* the strings passed to SetText and SetComment: "", "A", "BC", "A\0"
Values == { << >>, << 65 >>, << 66, 67 >>, << 65, 0 >> }

\* what a read past an allocation may yield
OobBytes == { 0, 65 }

Audio == << 255, 251, 144, 100, 3, 7 >>

FileHeader(major, minor, flags, size) ==
  kID3String \o << major, minor, flags >> \o WriteID3Int(7, size)

\* a well-formed file: header, frames, pad zero bytes, audio
TagFile(major, frames, pad) ==
  FileHeader(major, 0, 0, Len(frames) + pad) \o frames \o Zeros(pad) \o Audio

TextFrameBytes(frameType, text, major) == NewTextFrame(GetFrameID(frameType), text, major)

\* a "PRIV" frame: owner "x", one blob byte
PrivFrameBytes(major) == SetHeader(<< 80, 82, 73, 86 >>, 3, major) \o << 120, 0, 9 >>

\* a title and a comment, three bytes of padding (version 4)
FilePlain == TagFile(4, TextFrameBytes("Title", << 72, 105 >>, 4)
                        \o NewCommentFrame(<< 99 >>, 4), 3)
\* two title frames (version 3)
FileDuplicate == TagFile(3, TextFrameBytes("Title", << 72 >>, 3)
                            \o TextFrameBytes("Title", << 73 >>, 3), 0)
\* no frames, no padding
FileEmptyTag == TagFile(4, << >>, 0)
\* a private frame, an album, two comments, two bytes of padding (version 3)
FileMixed == TagFile(3, PrivFrameBytes(3) \o TextFrameBytes("Album", << 76 >>, 3)
                        \o NewCommentFrame(<< 99 >>, 3) \o NewCommentFrame(<< 100 >>, 3), 2)
\* the frame section ends inside the payload of its second frame
FileCutPayload ==
  FileHeader(3, 0, 0, 26) \o TextFrameBytes("Title", << 72 >>, 3)
  \o SubSeq(TextFrameBytes("Album", << 76, 77, 78, 79, 80 >>, 3), 1, 14) \o Audio
\* the frame section ends inside the header of its only frame
FileCutHeader ==
  FileHeader(3, 0, 0, 7) \o SubSeq(TextFrameBytes("Title", << 72 >>, 3), 1, 7) \o Audio
\* the file ends before the frame section the header declares does
FileShort ==
  FileHeader(4, 0, 0, 40) \o TextFrameBytes("Title", << 72 >>, 4) \o << 0, 0 >>

\* a version 3 frame whose size field is 0xFFFFFFF6: 10 + size is 0 modulo 2^32
FileWrap ==
  FileHeader(3, 0, 0, 12) \o GetFrameID("Title") \o << 255, 255, 255, 246, 0, 0 >>
  \o << 0, 72 >> \o Audio

Files == { FilePlain, FileDuplicate, FileEmptyTag, FileMixed, FileCutPayload,
           FileCutHeader, FileShort, FileWrap }

\* the files of the runs in which an I/O call fails
FilesIO == { FilePlain, FileMixed, FileShort, FileCutPayload }

\* an APEv2 header or footer of a tag without items: "APETAGEX", version
\* 2000, tagSize 32, itemCount 0, flags, reserved
ApeHeader(flags) ==
  kApeTag \o << 208, 7, 0, 0 >> \o << 32, 0, 0, 0 >> \o << 0, 0, 0, 0 >>
  \o flags \o Zeros(8)

ApeTag == ApeHeader(<< 0, 0, 0, 160 >>) \o ApeHeader(<< 0, 0, 0, 128 >>)

LongAudio == [i \in 1..LongAudioBytes |-> 1 + (i % 250)]

\* an album of 60 characters, 29 bytes of padding, more than 4096 bytes of
\* audio, an APEv2 tag of 64 bytes (version 3)
FileApe ==
  FileHeader(3, 0, 0, 100) \o TextFrameBytes("Album", [i \in 1..60 |-> 76], 3)
  \o Zeros(29) \o LongAudio \o ApeTag

\* n bytes that hold no "APETAGEX" and no zero
Filler(n) == [i \in 1..n |-> 1 + (i % 250)]

\* a uint32_t member as the packed APE structures store it (little endian)
ApeWord(n) == << ByteOf(n, 0), ByteOf(n, 1), ByteOf(n, 2), ByteOf(n, 3) >>

\* an APEv2TagHeader: "APETAGEX", version 2000, tagSize, itemCount, flags,
\* reserved; isHeader sets bit 29 of the flags, bit 31 says a header exists
ApeHeaderOf(tagSize, itemCount, isHeader) ==
  kApeTag \o ApeWord(2000) \o ApeWord(tagSize) \o ApeWord(itemCount)
  \o << 0, 0, 0, IF isHeader THEN 160 ELSE 128 >> \o Zeros(8)

\* an APEv2TagItem: valueSize_, flags_, the key and its NUL, the value
ApeItem(valueSize, key, value) ==
  ApeWord(valueSize) \o << 0, 0, 0, 0 >> \o key \o << 0 >> \o value

\* a well-formed APEv2 tag of these items: header, items, footer
ApeTagOf(items, itemCount) ==
  ApeHeaderOf(Len(items) + kApeHeaderSize, itemCount, TRUE) \o items
  \o ApeHeaderOf(Len(items) + kApeHeaderSize, itemCount, FALSE)

\* a file of len bytes with an empty ID3v2 tag and one "APETAGEX", that of
\* a lone APEv2 header without items at 0-based offset `at`
SigFile(len, at) ==
  LET body == FileHeader(4, 0, 0, 0) \o Filler(len - kFileHeaderSize)
  IN  SubSeq(body, 1, at) \o ApeHeaderOf(kApeHeaderSize, 0, TRUE)
      \o SubSeq(body, at + kApeHeaderSize + 1, len)

\* the files of the APE search, by length and place of the signature:
\* a file no longer than one search window; files of two windows with the
\* signature in the last window, below it and across the boundary; files
\* of three windows with it in the second window and across the boundary
\* of the last two; a file without signature
SearchFiles ==
  { SigFile(kBacktrackBufferSize - 96, 100),
    SigFile(kBacktrackBufferSize + 104, 2000),
    SigFile(kBacktrackBufferSize + 104, 50),
    FileHeader(4, 0, 0, 0) \o Filler(kBacktrackBufferSize + 104) }
  \cup { SigFile(kBacktrackBufferSize + 104, 104 - k) : k \in { 1, 7 } }
  \cup { SigFile(2 * kBacktrackBufferSize + 108, kBacktrackBufferSize + 108 - k) :
           k \in { 1, 4, 7 } }
  \cup { SigFile(2 * kBacktrackBufferSize + 108, 200) }

\* a title, audio, a well-formed APEv2 tag of one item at the end
FileApeItem ==
  TagFile(4, TextFrameBytes("Title", << 72 >>, 4), 0) \o LongAudio
  \o ApeTagOf(ApeItem(2, << 75 >>, << 118, 119 >>), 1)

\* the same with an item of more bytes than a search window: the tag's
\* header lies in the window before the last
FileApeLong ==
  TagFile(4, TextFrameBytes("Title", << 72 >>, 4), 0) \o LongAudio
  \o ApeTagOf(ApeItem(kBacktrackBufferSize + 4, << 75 >>, Filler(kBacktrackBufferSize + 4)), 1)

\* a file that ends inside the value of the first of two APE items
FileApeCutValue ==
  TagFile(4, TextFrameBytes("Title", << 72 >>, 4), 0) \o LongAudio
  \o ApeHeaderOf(200, 2, TRUE) \o ApeItem(100, << 75 >>, << 118, 119, 120 >>)

\* a file that ends inside the size field of its second APE item
FileApeCutItem ==
  TagFile(4, TextFrameBytes("Title", << 72 >>, 4), 0) \o LongAudio
  \o ApeHeaderOf(200, 2, TRUE) \o ApeItem(2, << 75 >>, << 118, 119 >>) \o << 7, 0 >>

\* the files with an APEv2 tag of header, items and footer
ApeTagFiles == { FileApe, FileApeItem, FileApeLong }

ApeFiles == SearchFiles \cup ApeTagFiles \cup { FileApeCutValue, FileApeCutItem }

\* headers of every kind over an empty frame section
HeaderFiles ==
  { sig \o << major, minor, flags >> \o WriteID3Int(7, 0) \o Audio :
      sig \in { kID3String, << 73, 68, 52 >> },
      major \in { 2, 3, 4, 5, 254, 255 },
      minor \in { 0, 255 },
      flags \in { 0, 1, 2, 4, 8, 16, 32, 64, 128, 144 } }

---------------------------------------------------------------------------
(* The state machine: one store, one file, the public calls.               *)

NoCall == [op |-> "none", type |-> "none", index |-> -1, value |-> << >>,
           ret |-> FALSE, stage |-> "none", fault |-> "none"]

NewStore ==
  [hdr |-> Zeros(kFileHeaderSize), aud |-> 0, buf |-> << >>, slack |-> NoSlack,
   oob |-> 0, ape |-> << >>, tags |-> << >>, frames |-> << >>, text |-> << >>, comm |-> << >>,
   dirty |-> FALSE]

(* No LoadTagData under way.  pc is where the call stands, close where    *)
(* the task that closes the file stands, handle the state of mp3File,      *)
(* from the store the call began with, bytesRead its local of that name.   *)
NoLoad ==
  [pc |-> "idle", close |-> "idle", handle |-> "closed", fault |-> "none",
   from |-> NewStore, bytesRead |-> 0]

\* the variables take the members of store s
Becomes(s) ==
  /\ fileHeader_' = s.hdr
  /\ audioBufferOffset_' = s.aud
  /\ id3FrameBuffer_' = s.buf
  /\ id3Slack' = s.slack
  /\ oobByte' = s.oob
  /\ apeFrameBuffer_' = s.ape
  /\ apeTags_' = s.tags
  /\ frames_' = s.frames
  /\ textFrames_' = s.text
  /\ commentFrames_' = s.comm
  /\ isDirty_' = s.dirty

InitWith(files, nFaults) ==
  /\ file \in files
  /\ fileHeader_ = NewStore.hdr
  /\ audioBufferOffset_ = NewStore.aud
  /\ id3FrameBuffer_ = NewStore.buf
  /\ id3Slack = NewStore.slack
  /\ oobByte = NewStore.oob
  /\ apeFrameBuffer_ = NewStore.ape
  /\ apeTags_ = NewStore.tags
  /\ frames_ = NewStore.frames
  /\ textFrames_ = NewStore.text
  /\ commentFrames_ = NewStore.comm
  /\ isDirty_ = NewStore.dirty
  /\ call = NoCall
  /\ load = NoLoad
  /\ faults = nFaults
  /\ edits = 0
  /\ writes = 0

Init == InitWith(Files, 0)

\* an I/O call fails only while the run has failures left
MayFail(fault) == fault = "none" \/ faults > 0

\* the last call has returned: no call follows one that never does
Returned == call.stage # "diverges"

\* the bookkeeping every call shares
Called(op, type, index, value, fault, out) ==
  /\ fault = "none" \/ out.hit
  /\ faults' = IF fault = "none" THEN faults ELSE faults - 1
  /\ Becomes(out.store)
  /\ file' = out.file
  /\ call' = [op |-> op, type |-> type, index |-> index, value |-> value,
              ret |-> out.ret, stage |-> out.stage, fault |-> fault]
  /\ UNCHANGED load

\* whether some frame of s lies, in part, past the frame buffer's allocation
ReadsPastAllocation(s) ==
  \E i \in 1..Len(s.frames) :
    /\ s.frames[i].rawFrame # 0
    /\ s.frames[i].rawFrame - 1
         + Max(kFrameHdrSize, GetFrameBytes(Mem(s), ID3Frame(s.frames[i].rawFrame), Version(s)))
       > Len(s.buf) + SlackSize(s.slack)

\* whether parsing the frame buffer of s reads past its allocation
ParsesPastAllocation(s) ==
  ParseReadEnd(Mem(s), Version(s), 0) > Len(s.buf) + SlackSize(s.slack)

(* The outcomes of an operation over what lies past the allocation: that   *)
(* is a choice only where it is read, and up to the first such read the    *)
(* operation runs the same whatever lies there.                            *)
Outcomes(out, others) ==
  IF ReadsPastAllocation(out.store) \/ ParsesPastAllocation(out.store)
  THEN { out } \cup others
  ELSE { out }

LoadCall ==
  \E fault \in { "none" } \cup LoadFaults :
    /\ Returned
    /\ Len(apeTags_) < MaxApeTags
    /\ MayFail(fault)
    /\ LET Op(oob) == LoadTagData(Store, file, fault, oob)
       IN  \E out \in Outcomes(Op(0), { Op(oob) : oob \in OobBytes }) : Called("Load", "none", -1, << >>, fault, out)
    /\ UNCHANGED << edits, writes >>

\* assert( majorVersion >= kMajorVersionWith8BitSize ) in SetHeader
CanEdit ==
  /\ Returned
  /\ GetMajorVersion(fileHeader_) >= kMajorVersionWith8BitSize /\ edits < MaxEdits

SetTextCall ==
  \E frameType \in TextTypes, newStr \in Values :
    /\ CanEdit
    /\ Called("SetText", frameType, -1, newStr, "none",
              Outcome(SetText(Store, frameType, newStr), file, TRUE, "ok", FALSE))
    /\ edits' = edits + 1
    /\ UNCHANGED writes

\* assert( i <= commentFrames_.size() )
SetCommentCall ==
  \E i \in 0..Len(commentFrames_), newComment \in Values :
    /\ CanEdit
    /\ Called("SetComment", "Comment", i, newComment, "none",
              Outcome(SetComment(Store, i, newComment), file, TRUE, "ok", FALSE))
    /\ edits' = edits + 1
    /\ UNCHANGED writes

\* assert( audioDataSize64 <= std::numeric_limits<uint32_t>::max() )
CanWrite ==
  \/ ~isDirty_
  \/ /\ writes < MaxWrites
     /\ Len(file) >= Len(id3FrameBuffer_) + kFileHeaderSize

WriteCall ==
  \E fault \in { "none" } \cup WriteFaults \cup LoadFaults :
    /\ Returned
    /\ CanWrite
    /\ MayFail(fault)
    /\ LET Op(oob) == Write(Store, file, fault, oob)
       IN  \E out \in Outcomes(Op(0), { Op(oob) : oob \in OobBytes }) : Called("Write", "none", -1, << >>, fault, out)
    /\ writes' = IF isDirty_ THEN writes + 1 ELSE writes
    /\ UNCHANGED edits

Next == LoadCall \/ SetTextCall \/ SetCommentCall \/ WriteCall

Spec == Init /\ [][Next]_vars

\* the same calls where up to MaxFaults I/O calls fail
InitIO == InitWith(FilesIO, MaxFaults)
SpecIO == InitIO /\ [][Next]_vars

\* the same calls on a file that ends in an APEv2 tag
InitApe == InitWith({ FileApe }, 0)
SpecApe == InitApe /\ [][Next]_vars

\* the edits alone
NextEdit == LoadCall \/ SetTextCall \/ SetCommentCall
SpecEdit == Init /\ [][NextEdit]_vars

\* loads of files with every kind of header
InitHeader == InitWith(HeaderFiles, MaxFaults)
SpecHeader == InitHeader /\ [][LoadCall]_vars

\* a "COMM" frame as a file holds it: encoding, language, then the payload
\* (description, its terminator, the comment) as given
RawCommentFrame(encoding, payload, major) ==
  SetHeader(GetFrameID("Comment"), Len(kEnglishLanguage) + 1 + Len(payload), major)
  \o << encoding >> \o kEnglishLanguage \o payload

\* a text frame as a file holds it: encoding, then the payload as given
RawTextFrame(frameType, encoding, payload, major) ==
  SetHeader(GetFrameID(frameType), 1 + Len(payload), major) \o << encoding >> \o payload

\* a comment whose payload "xy" holds no description terminator
FileCommentNoNul == TagFile(4, RawCommentFrame(0, << 120, 121 >>, 4), 2)
\* a comment whose declared size ends with the language field
FileCommentBare == TagFile(4, RawCommentFrame(0, << >>, 4), 2)
\* a title "H" and a comment "c" in UTF-16 with BOM (encoding 1)
FileUtf16 ==
  TagFile(3, RawTextFrame("Title", 1, << 255, 254, 72, 0 >>, 3)
             \o RawCommentFrame(1, << 255, 254, 0, 0, 255, 254, 99, 0 >>, 3), 0)
\* a title "H" and a comment "c" in UTF-16BE (encoding 2)
FileUtf16BE ==
  TagFile(3, RawTextFrame("Title", 2, << 254, 255, 0, 72 >>, 3)
             \o RawCommentFrame(2, << 254, 255, 0, 0, 254, 255, 0, 99 >>, 3), 0)

TextFiles == { FileCommentNoNul, FileCommentBare, FileUtf16, FileUtf16BE, FilePlain }

\* the same calls on files whose text is not what SetText/SetComment write
InitText == InitWith(TextFiles, 0)
SpecText == InitText /\ [][Next]_vars

\* a file that declares a frame section of size bytes and holds a title
\* and two zero bytes of it
FileDeclaring(size) ==
  FileHeader(4, 0, 0, size) \o TextFrameBytes("Title", << 72 >>, 4) \o << 0, 0 >>

\* declared sizes just below, at and above 1024 * 1024
CapFiles ==
  { FileDeclaring(size) : size \in { kReasonableSectionSize - 1, kReasonableSectionSize,
                                     kReasonableSectionSize + 1 } }

\* loads of files with every kind of header and of declared size
InitCap == InitWith(CapFiles \cup HeaderFiles, 0)
SpecCap == InitCap /\ [][LoadCall]_vars

\* sizes of up to 28 bits, around the byte boundaries of the 7-bit encoding
Words28 == { 0, 1, 127, 128, 255, 256, 16383, 16384, 2097151, 2097152,
             Pow2(28) - 1 }

\* 32-bit words above them, up to 0x7FFFFFFF, 0x80000000, 0xFFFFFFF6 and 0xFFFFFFFF
Words32 == Words28 \cup { Pow2(28), Pow2(30) + 5, (Pow2(30) - 1) * 2 + 1,
                          Word32(128, 0, 0, 0), Word32(255, 255, 255, 246),
                          Word32(255, 255, 255, 255) }

\* a version 5 file
FileFive == TagFile(5, TextFrameBytes("Title", << 72 >>, 5), 0)

\* fileHeader_.SetSize( v )
SetSizeCall ==
  \E v \in Words28 :
    /\ Called("SetSize", "none", v, << >>, "none",
              Outcome([Store EXCEPT !.hdr = SetSize(@, v)], file, TRUE, "ok", FALSE))
    /\ UNCHANGED << edits, writes >>

\* ID3v2FrameHdr::SetHeader( frameID, v, fileHeader_.GetMajorVersion() ) on a
\* frame buffer of its own, kept in call.value
SetHeaderCall ==
  \E v \in Words32, frameType \in TextTypes :
    /\ GetMajorVersion(fileHeader_) >= kMajorVersionWith8BitSize
    /\ GetMajorVersion(fileHeader_) = kMajorVersionWith8BitSize \/ v \in Words28
    /\ Called("SetHeader", frameType, v,
              SetHeader(GetFrameID(frameType), v, GetMajorVersion(fileHeader_)), "none",
              Outcome(Store, file, TRUE, "ok", FALSE))
    /\ UNCHANGED << edits, writes >>

\* the integer codec through the two headers that use it
InitCodec == InitWith({ FileMixed, FilePlain, FileFive }, 0)
NextCodec == LoadCall \/ SetSizeCall \/ SetHeaderCall
SpecCodec == InitCodec /\ [][NextCodec]_vars

\* loads of files with "APETAGEX" signatures and APEv2 tags
InitFind == InitWith(ApeFiles, MaxFaults)
SpecFind == InitFind /\ [][LoadCall]_vars

---------------------------------------------------------------------------
(* LoadTagData step by step: the calling thread reads, starts the task    *)
(* that closes the file (std::async), parses, waits for the task and       *)
(* returns; the task runs at any time after its start.                     *)

\* the rest of the state a step of a Load leaves alone
LoadStepKeeps == UNCHANGED << file, edits, writes >>

Running(stage) ==
  [op |-> "Load", type |-> "none", index |-> -1, value |-> << >>,
   ret |-> FALSE, stage |-> stage, fault |-> load.fault]

\* a return of false: mp3File goes out of scope, which closes the file
ReturnsFalse(out) ==
  /\ Becomes(out.store)
  /\ load' = [load EXCEPT !.pc = "returned", !.handle = "closed"]
  /\ call' = [Running(out.stage) EXCEPT !.fault = load'.fault]

\* the resizes and mp3File.Open
LoadBegin ==
  \E fault \in { "none" } \cup LoadFaults, oob \in OobBytes :
    /\ load.pc \in { "idle", "returned" }
    /\ Len(apeTags_) < MaxApeTags
    /\ MayFail(fault)
    /\ fault = "none" \/ LoadTagData(Store, file, fault, oob).hit
    /\ faults' = IF fault = "none" THEN faults ELSE faults - 1
    /\ IF fault = "open"
       THEN /\ Becomes(LoadReset(Store, oob))
            /\ load' = [NoLoad EXCEPT !.pc = "returned", !.fault = fault, !.from = Store]
            /\ call' = [Running("open") EXCEPT !.fault = fault]
       ELSE /\ Becomes(LoadReset(Store, oob))
            /\ load' = [NoLoad EXCEPT !.pc = "opened", !.handle = "open",
                                      !.fault = fault, !.from = Store]
            /\ call' = [Running("opened") EXCEPT !.fault = fault]
    /\ LoadStepKeeps

\* the reads of the header and of the frame section
LoadReadTagStep ==
  /\ load.pc = "opened" /\ load.handle = "open"
  /\ LET out == LoadReadTag(Store, file, load.fault)
     IN  IF out.ret
         THEN /\ Becomes(out.store)
              /\ load' = [load EXCEPT !.pc = "readTag", !.bytesRead = FrameBytesRead(file)]
              /\ call' = Running("readTag")
         ELSE ReturnsFalse(out)
  /\ UNCHANGED faults /\ LoadStepKeeps

\* the search for the APE signature and the read of the APE block
LoadReadApeStep ==
  /\ load.pc = "readTag" /\ load.handle = "open"
  /\ LET out == LoadReadApe(Store, file, load.fault)
     IN  IF out.ret
         THEN /\ Becomes(out.store)
              /\ load' = [load EXCEPT !.pc = "read",
                                      !.bytesRead = ApeBytesRead(file, load.fault, @)]
              /\ call' = Running("read")
         ELSE ReturnsFalse(out)
  /\ UNCHANGED faults /\ LoadStepKeeps

\* std::async( std::launch::async, [&] { mp3File.Close(); } )
LoadStartClose ==
  /\ load.pc = "read"
  /\ load' = [load EXCEPT !.pc = "closing", !.close = "running"]
  /\ call' = Running("closing")
  /\ Becomes(Store)
  /\ UNCHANGED faults /\ LoadStepKeeps

\* the task: mp3File.Close()
CloseTask ==
  /\ load.close = "running"
  /\ load' = [load EXCEPT !.close = "done", !.handle = "closed"]
  /\ Becomes(Store)
  /\ UNCHANGED << call, faults >> /\ LoadStepKeeps

\* the resize to bytesRead and ParseID3Frames
LoadParseFramesStep ==
  /\ load.pc = "closing"
  /\ Becomes(LoadParseFrames(Store, load.bytesRead))
  /\ load' = [load EXCEPT !.pc = "parsedFrames"]
  /\ call' = Running("parsedFrames")
  /\ UNCHANGED faults /\ LoadStepKeeps

\* ParseAPETags
LoadParseApeStep ==
  /\ load.pc = "parsedFrames"
  /\ Becomes([Store EXCEPT !.tags = ParseAPETags(Store.ape, Store.oob, @)])
  /\ load' = [load EXCEPT !.pc = "parsed"]
  /\ call' = Running("parsed")
  /\ UNCHANGED faults /\ LoadStepKeeps

\* a variant of MayReturn without the wait
ReturnsUnjoined(l) == l.pc = "parsed"

\* fileClose.wait() lets the call go on once the task has ended
MayReturn(l) == l.pc = "parsed" /\ l.close = "done"

\* fileClose.wait(); return true
LoadReturn ==
  /\ MayReturn(load)
  /\ load' = [load EXCEPT !.pc = "returned"]
  /\ call' = [Running("ok") EXCEPT !.ret = TRUE]
  /\ Becomes(Store)
  /\ UNCHANGED faults /\ LoadStepKeeps

\* the files of the step-by-step Load; none whose frame parse never ends
AsyncFiles == FilesIO \cup { FileEmptyTag, FileApe, FileApeItem, FileApeCutItem }

InitAsync == InitWith(AsyncFiles, MaxFaults)
NextAsync ==
  \/ LoadBegin \/ LoadReadTagStep \/ LoadReadApeStep \/ LoadStartClose
  \/ CloseTask \/ LoadParseFramesStep \/ LoadParseApeStep \/ LoadReturn
SpecAsync == InitAsync /\ [][NextAsync]_vars

---------------------------------------------------------------------------
(* What the properties below speak of.                                     *)

NoTrailingNul(value) == value = << >> \/ value[Len(value)] # 0

\* no SetText/SetComment call has changed the frame table since the Load
Untouched(s) == \A i \in 1..Len(s.frames) : IsUnmodified(s.frames[i])

\* the frames of type frameType the text index leads to
TypeCount(s, frameType) ==
  Cardinality({ k \in 1..Len(s.text) : IsFrameID(Mem(s), s.frames[s.text[k]], frameType) })

\* the bytes of f from 0-based offset `from` to EOF
FileFrom(f, from) == SubSeq(f, from + 1, Len(f))

\* whether a Write of store s takes the growth path
Grows(s) == ReadsAudio(TotalWriteBytes(s), Len(s.buf))

\* every frame of s lies inside the frame buffer
FramesInsideBuffer(s) ==
  \A i \in 1..Len(s.frames) :
    s.frames[i].rawFrame # 0 =>
      s.frames[i].rawFrame - 1 + GetFrameBytes(Mem(s), ID3Frame(s.frames[i].rawFrame), Version(s))
        <= Len(s.buf)

\* what the claims say a header is rejected for
Rejected(hdr) ==
  \/ GetHeaderID(hdr) # kID3String
  \/ GetMajorVersion(hdr) < 3
  \/ GetMajorVersion(hdr) = 255
  \/ GetMinorVersion(hdr) = 255
  \/ \E bit \in { 6, 5, 3, 2, 1, 0 } : BitSet(GetFlags(hdr), bit)

\* the 0-based offsets of the "APETAGEX" signatures of f
Signatures(f) ==
  { i - 1 : i \in { j \in 1..(Len(f) - Len(kApeTag) + 1) : f[j] = kApeTag[1] /\ f[j + 1] = kApeTag[2]
                     /\ SubSeq(f, j, j + Len(kApeTag) - 1) = kApeTag } }

\* the offset FindApeHeaderOffset gave the last Load, kNoApeHeader for none:
\* apeFrameBuffer_ holds the file from that offset to EOF
FoundOffset ==
  IF apeFrameBuffer_ = << >> THEN kNoApeHeader ELSE Len(file) - Len(apeFrameBuffer_)

\* f ends with one APEv2 tag: a header at 0-based offset h whose tagSize
\* leads to a footer in the last 32 bytes of f, and no other signature
EndsWithApeTagAt(f, h) ==
  LET t == Len(f) - kApeHeaderSize
  IN  /\ h < t /\ Signatures(f) = { h, t }
      /\ ApeUInt32(f, 0, h + 12) = t - h
      /\ f[h + 24] = 160 /\ f[t + 24] = 128

\* the last call was a Load in which every I/O call succeeded
LoadedAll == call.op = "Load" /\ call.ret /\ call.fault = "none"

\* the starts of the later of every two successive 4096-byte search windows of f
WindowBoundaries(f) ==
  { Len(f) - j * kBacktrackBufferSize : j \in 1..(Len(f) \div kBacktrackBufferSize) }
  \ { 0 }

\* the bytes frame i of s stands for in a written file: none when marked
\* for delete, the new buffer when replaced, else the 10-byte header and
\* the declared size of bytes at its place in memory
FrameImage(s, i) ==
  LET fr == s.frames[i]
      declared == HdrGetSize(RawBytes(Mem(s), fr.rawFrame + kFrameIDCharCount, 4), Version(s))
  IN  IF IsMarkedForDelete(fr) THEN << >>
      ELSE IF IsReplaced(fr) THEN fr.newFrame
      ELSE RawBytes(Mem(s), fr.rawFrame, kFrameHdrSize + declared)

\* the images of the frames of s from frame i on, in frame order
RECURSIVE FrameImages(_, _)
FrameImages(s, i) ==
  IF i > Len(s.frames) THEN << >> ELSE FrameImage(s, i) \o FrameImages(s, i + 1)

HeaderWasRead == call.op = "Load" /\ call.stage \notin { "none", "open", "readHeader" }
LoadReturnedTrue == call.op \in { "Load", "Write" } /\ call.ret

---------------------------------------------------------------------------
(* C1: a Write whose frames fit in the loaded frame buffer leaves the file *)
(* length and every byte from the GetAudioBufferOffset() of before the     *)
(* call to EOF as they were, whatever I/O call fails.                      *)
C1_AudioPreserved ==
  [][ (call'.op = "Write" /\ ~Grows(Store)) =>
        /\ Len(file') = Len(file)
        /\ FileFrom(file', GetAudioBufferOffset(Store)) = FileFrom(file, GetAudioBufferOffset(Store))
    ]_vars

\* a Write has replaced FilePlain's title by a shorter one, in place
C1_Witness ==
  /\ call.op = "Write" /\ call.ret /\ call.fault = "none"
  /\ file # FilePlain /\ Len(file) = Len(FilePlain)
  /\ GetText(Store, "Title") = << 65 >>
  /\ GetComment(Store, 0) = << 99 >>
  /\ FileFrom(file, GetAudioBufferOffset(Store)) = Audio

(* C2: a Write that grew the tag section and returned true has put the old *)
(* file's bytes from 10 + the old frame buffer length to EOF right after   *)
(* the new header, frames and padding, whatever I/O call failed.           *)
C2_TrailingBytesKept ==
  [][ (call'.op = "Write" /\ call'.ret /\ IsDirty(Store) /\ Grows(Store)) =>
        FileFrom(file', kFileHeaderSize + TotalWriteBytes(Store) + kPaddingBytes)
          = FileFrom(file, kFileHeaderSize + Len(id3FrameBuffer_))
    ]_vars

(* C3: SetText(t, v) with v non-empty and free of trailing NULs, then a    *)
(* Write that returns true, on a loaded version 3 or 4 file: GetText(t) is *)
(* v in the store the Write leaves.                                        *)
C3_RoundTrip ==
  [][ ( /\ call.op = "SetText" /\ call.value # << >> /\ NoTrailingNul(call.value)
        /\ GetMajorVersion(fileHeader_) \in { 3, 4 }
        /\ call'.op = "Write" /\ call'.ret )
      => GetText(Store', call.type) = call.value
    ]_vars

(* C4: while no SetText/SetComment call has changed the frame table since  *)
(* the Load, IsDirty() is false and Write() returns false at its first     *)
(* test: it reaches no I/O call and leaves the store and the file alone.   *)
C4_CleanWriteIsNoOp ==
  Untouched(Store) =>
    /\ ~IsDirty(Store)
    /\ \A fault \in { "none" } \cup WriteFaults \cup LoadFaults, oob \in OobBytes :
         Write(Store, file, fault, oob) = Outcome(Store, file, FALSE, "clean", FALSE)

\* Write was called on a loaded table that an edit left as it was
C4_Witness ==
  /\ call.op = "Write" /\ call.stage = "clean" /\ ~call.ret
  /\ edits > 0 /\ Len(frames_) > 0 /\ Untouched(Store)

(* C5: after SetText(t, "") GetText(t) is empty, and it stays empty over   *)
(* every later edit other than a SetText(t, non-empty).                    *)
C5_DeletedIsAbsent ==
  [][ \A t \in TextTypes :
        /\ (call'.op = "SetText" /\ call'.type = t /\ call'.value = << >>)
             => GetText(Store', t) = << >>
        /\ ( /\ GetText(Store, t) = << >>
             /\ call'.op \in { "SetText", "SetComment" }
             /\ ~(call'.op = "SetText" /\ call'.type = t /\ call'.value # << >>) )
             => GetText(Store', t) = << >>
    ]_vars

(* C6: a SetText(t, v) with v non-empty adds one frame when t was absent   *)
(* and none when it was present; a SetText(t, w) right after it, w         *)
(* non-empty and free of trailing NULs (which every GetText trims), leaves *)
(* one frame of type t in the text index, at the position it had, the      *)
(* frame count as it was, and GetText(t) = w.                              *)
C6_SetTextReplaces ==
  [][ \A t \in TextTypes :
        /\ (call'.op = "SetText" /\ call'.type = t /\ call'.value # << >>)
             => GetFrameCount(Store') = GetFrameCount(Store)
                  + (IF GetTextFrameReferencePos(Store, t) = kInvalidFramePos THEN 1 ELSE 0)
        /\ ( /\ call.op = "SetText" /\ call.type = t /\ call.value # << >>
             /\ call'.op = "SetText" /\ call'.type = t /\ call'.value # << >>
             /\ NoTrailingNul(call'.value) )
             => /\ TypeCount(Store', t) = 1
                /\ GetText(Store', t) = call'.value
                /\ GetFrameCount(Store') = GetFrameCount(Store)
                /\ GetTextFrameReferencePos(Store', t) = GetTextFrameReferencePos(Store, t)
    ]_vars

(* C7: SetComment(i, v), i <= GetCommentCount(), v non-empty without       *)
(* trailing NULs: GetComment(i) is v; i = count adds one comment and one   *)
(* frame, i < count adds none; every other comment reads as before.        *)
C7_SetComment ==
  [][ (call'.op = "SetComment" /\ call'.value # << >> /\ NoTrailingNul(call'.value)) =>
        LET i == call'.index
            count == GetCommentCount(Store)
        IN  /\ GetComment(Store', i) = call'.value
            /\ i = count =>
                 /\ GetCommentCount(Store') = count + 1
                 /\ GetFrameCount(Store') = GetFrameCount(Store) + 1
                 /\ Store'.frames[GetFrameCount(Store')].rawFrame = 0
            /\ i < count =>
                 /\ GetCommentCount(Store') = count
                 /\ GetFrameCount(Store') = GetFrameCount(Store)
            /\ \A j \in 0..(count - 1) : j # i => GetComment(Store', j) = GetComment(Store, j)
    ]_vars

\* the first of FileMixed's two comments was replaced, the second reads as before
C7_Witness ==
  /\ call.op = "SetComment" /\ call.index = 0 /\ call.value = << 66, 67 >>
  /\ GetCommentCount(Store) = 2
  /\ GetComment(Store, 0) = << 66, 67 >>
  /\ GetComment(Store, 1) = << 100 >>

(* C8: once the file is open and its header read, Load fails at the header *)
(* test exactly when the signature is not "ID3", majorVersion < 3,         *)
(* majorVersion = 0xFF, minorVersion = 0xFF or one of the flag bits 6, 5,  *)
(* 3, 2, 1, 0 is set; bits 7 and 4 alone never do.                         *)
C8_HeaderValidation ==
  HeaderWasRead =>
    /\ (call.stage = "invalid") <=> Rejected(fileHeader_)
    /\ call.stage = "invalid" => ~call.ret
    /\ (~Rejected([fileHeader_ EXCEPT ![6] = 0]) /\ GetFlags(fileHeader_) \in { 128, 16, 144 })
         => call.stage # "invalid"

\* a header with flag bits 7 and 4 set was accepted
C8_Witness ==
  /\ HeaderWasRead /\ call.ret
  /\ GetFlags(fileHeader_) = 144

(* C9 as stated: after every Load that returns true the stored header has  *)
(* majorVersion 3 or 4.                                                    *)
C9_VersionThreeOrFour ==
  LoadReturnedTrue => GetMajorVersion(fileHeader_) \in { 3, 4 }

(* C9, amended: after every Load that returns true the stored header has   *)
(* 3 <= majorVersion <= 254 (and minorVersion # 0xFF).                     *)
C9_VersionNotObsolete ==
  LoadReturnedTrue =>
    /\ GetMajorVersion(fileHeader_) \in 3..254
    /\ GetMinorVersion(fileHeader_) # 255

\* a file of major version 5 was loaded
C9_Witness ==
  /\ LoadReturnedTrue
  /\ GetMajorVersion(fileHeader_) = 5

(* C10: after a Load that returns true every frame of the table lies, with *)
(* its 10-byte header and its declared size, inside the frame buffer, and  *)
(* parsing has read no byte outside the buffer.                            *)
C10_FramesInsideBuffer ==
  (call.op = "Load" /\ call.ret) =>
    /\ FramesInsideBuffer(Store)
    /\ ParseReadEnd(Mem(Store), Version(Store), 0) <= Len(id3FrameBuffer_)

(* C11: a Write that returns true has had no I/O call fail, but for a      *)
(* first open whose retry succeeded.                                       *)
C11_WriteReportsFailure ==
  (call.op = "Write" /\ call.ret) => call.fault \in { "none", "open1" }

(* C12: the size SetSize(v) stores reads back as v through GetSize(), with *)
(* the top bit of its four bytes clear, for v of up to 28 bits; the size   *)
(* SetHeader(id, v, ver) stores reads back as v through                    *)
(* ID3v2FrameHdr::GetSize(ver), for every 32-bit v when ver = 3 and v of   *)
(* up to 28 bits when ver >= 4; ReadID3Int<k>(WriteID3Int<k>(v)) = v for   *)
(* the same v and k = 7, 8.                                                *)
C12_CodecRoundTrip ==
  /\ call.op = "SetSize" =>
       /\ GetSize(fileHeader_) = call.index
       /\ \A k \in 7..10 : fileHeader_[k] < 128
       /\ ReadID3Int(7, WriteID3Int(7, call.index)) = call.index
  /\ call.op = "SetHeader" =>
       /\ HdrGetSize(SubSeq(call.value, 5, 8), GetMajorVersion(fileHeader_)) = call.index
       /\ SubSeq(call.value, 1, 4) = GetFrameID(call.type)
       /\ ReadID3Int(8, WriteID3Int(8, call.index)) = call.index
       /\ GetMajorVersion(fileHeader_) > kMajorVersionWith8BitSize =>
            \A k \in 5..8 : call.value[k] < 128

\* SetSize(2^28 - 1) and, in a version 3 file, SetHeader(id, 0xFFFFFFFF, 3) were made
C12_Witness ==
  /\ call.op = "SetHeader" /\ call.index = Word32(255, 255, 255, 255)
  /\ SubSeq(call.value, 5, 8) = << 255, 255, 255, 255 >>
  /\ GetSize(fileHeader_) = Pow2(28) - 1
  /\ SubSeq(fileHeader_, 7, 10) = << 127, 127, 127, 127 >>

(* C13: after a Load in which every read succeeded, of a file whose only   *)
(* "APETAGEX" starts 1 to 7 bytes before the start of a search window that *)
(* is not the first window of the file, FindApeHeaderOffset has given the  *)
(* offset of that signature.                                               *)
C13_StraddlingSignatureFound ==
  (LoadedAll /\ \E at \in Signatures(file) :
                  /\ Signatures(file) = { at }
                  /\ \E b \in WindowBoundaries(file) : at < b /\ b < at + Len(kApeTag))
    => Signatures(file) = { FoundOffset }

(* C14: after a Load in which every read succeeded, FindApeHeaderOffset    *)
(* has given "no APE header" only for a file without "APETAGEX".           *)
C14_SearchCoversFile ==
  (LoadedAll /\ FoundOffset = kNoApeHeader) => Signatures(file) = { }

(* C15: after a Load that returns true the frame buffer is as long as the  *)
(* smaller of the header's size and the file's bytes after the 10-byte     *)
(* header, with or without an APE tag in the file.                         *)
C15_BufferLength ==
  (call.op = "Load" /\ call.ret) =>
    Len(id3FrameBuffer_) = Min(GetSize(fileHeader_), Len(file) - kFileHeaderSize)

(* C16 as stated: a Write that has written the header leaves in the file   *)
(* a header size that is F + 2048 when the frames' F bytes exceed the      *)
(* loaded frame buffer, and otherwise the size the file's header had; it   *)
(* is never smaller than that.                                             *)
C16_SizeNeverShrinks ==
  [][ (call'.op = "Write" /\ call'.stage \notin { "clean", "open", "writeHeader" }) =>
        LET F == TotalWriteBytes(Store)
            before == GetSize(SubSeq(file, 1, kFileHeaderSize))
            after == GetSize(SubSeq(file', 1, kFileHeaderSize))
        IN  /\ after = IF F > Len(id3FrameBuffer_) THEN F + kPaddingBytes ELSE before
            /\ after >= before
    ]_vars

(* C16, amended: the size such a Write leaves in the file's header is      *)
(* F + 2048 when F exceeds the loaded frame buffer's length and otherwise  *)
(* that length; it is never smaller than the loaded frame buffer.          *)
C16_SizeIsBufferOrGrown ==
  [][ (call'.op = "Write" /\ call'.stage \notin { "clean", "open", "writeHeader" }) =>
        LET F == TotalWriteBytes(Store)
            after == GetSize(SubSeq(file', 1, kFileHeaderSize))
        IN  /\ after = IF F > Len(id3FrameBuffer_) THEN F + kPaddingBytes
                       ELSE Len(id3FrameBuffer_)
            /\ after >= Len(id3FrameBuffer_)
    ]_vars

\* FileShort, whose header says 40 and whose frame buffer has 14 bytes, was
\* written in place: its header now says 14
C16_Witness ==
  /\ call.op = "Write" /\ call.ret
  /\ Len(file) = Len(FileShort)
  /\ GetSize(SubSeq(FileShort, 1, kFileHeaderSize)) = 40
  /\ GetSize(SubSeq(file, 1, kFileHeaderSize)) = 14
  /\ GetText(Store, "Title") = << 65 >>

(* C17: a Write of a dirty store in which every I/O call succeeds leaves   *)
(* the file beginning with the stored header's first six bytes and the    *)
(* size F + P, then the images of the frames in frame order, then P zero   *)
(* bytes; F is the length of the images, P is 2048 when F exceeds the      *)
(* loaded frame buffer's length and that length less F otherwise.          *)
C17_WrittenLayout ==
  [][ (call'.op = "Write" /\ call'.fault = "none" /\ call'.stage # "clean") =>
        LET images == FrameImages(Store, 1)
            F == Len(images)
            P == IF F > Len(id3FrameBuffer_) THEN kPaddingBytes ELSE Len(id3FrameBuffer_) - F
        IN  /\ SubSeq(file', 1, kFileHeaderSize + F + P)
                 = SubSeq(fileHeader_, 1, 6) \o WriteID3Int(7, F + P) \o images \o Zeros(P)
            /\ GetSize(SubSeq(file', 1, kFileHeaderSize)) = F + P
    ]_vars

\* FileMixed was written with its album deleted and a title added: the
\* private frame and the two comments are where they were, the title follows
C17_Witness ==
  /\ call.op = "Write" /\ call.ret /\ call.fault = "none"
  /\ Len(file) = Len(FileMixed)
  /\ SubSeq(file, 1, kFileHeaderSize + Len(PrivFrameBytes(3)))
       = SubSeq(FileMixed, 1, kFileHeaderSize + Len(PrivFrameBytes(3)))
  /\ GetFrameCount(Store) = 4
  /\ GetText(Store, "Album") = << >>
  /\ GetText(Store, "Title") = << 65 >>
  /\ GetComment(Store, 0) = << 99 >> /\ GetComment(Store, 1) = << 100 >>
  /\ frames_[4].rawFrame = GetFrameBytes(Mem(Store), frames_[3], Version(Store)) + frames_[3].rawFrame

(* C18: the frame parse of every Load ends, and each frame it accepted     *)
(* begins 10 + its declared size bytes after the frame before it, which is *)
(* strictly further into the 32-bit offset range.                          *)
C18_ParseAdvances ==
  call.op = "Load" =>
    /\ call.stage # "diverges"
    /\ \A i \in 1..(Len(frames_) - 1) :
         /\ frames_[i + 1].rawFrame > frames_[i].rawFrame
         /\ frames_[i + 1].rawFrame
              = frames_[i].rawFrame + kFrameHdrSize
                + HdrGetSize(RawBytes(Mem(Store), frames_[i].rawFrame + kFrameIDCharCount, 4),
                             Version(Store))

(* C19: when a Load finds an APE signature in a file that ends with one    *)
(* well-formed APEv2 tag (header, items, footer), the offset found is that  *)
(* of the tag's header.                                                     *)
C19_MatchIsTagHeader ==
  \A h \in Signatures(file) :
    (LoadedAll /\ EndsWithApeTagAt(file, h) /\ FoundOffset # kNoApeHeader)
      => FoundOffset = h

\* the item at 0-based offset off of APE buffer ape lies inside it: the
\* size and flags, the key up to its NUL, and valueSize bytes of value
ApeItemInside(ape, off) ==
  /\ off + kApeItemKeyOffset <= Len(ape)
  /\ \E k \in 0..kMaxKeySize :
       /\ off + kApeItemKeyOffset + k + 1 <= Len(ape)
       /\ ape[off + kApeItemKeyOffset + k + 1] = 0
       /\ \A j \in 0..(k - 1) : ape[off + kApeItemKeyOffset + j + 1] # 0
       /\ ApeUInt32(ape, 0, off) >= 0
       /\ off + kApeItemKeyOffset + k + 1 + ApeUInt32(ape, 0, off) <= Len(ape)

(* C20: a Load that returns true records at most itemCount APE items, and  *)
(* every item it records lies entirely inside apeFrameBuffer_.             *)
C20_ApeItemsInsideBuffer ==
  [][ (call'.op = "Load" /\ call'.ret) =>
        LET recorded == SubSeq(apeTags_', Len(apeTags_) + 1, Len(apeTags_'))
        IN  /\ apeFrameBuffer_' = << >> => recorded = << >>
            /\ Len(apeFrameBuffer_') >= kApeHeaderSize =>
                 \/ ApeUInt32(apeFrameBuffer_', 0, kApeItemCountOffset) < 0
                 \/ Len(recorded) <= ApeUInt32(apeFrameBuffer_', 0, kApeItemCountOffset)
            /\ \A i \in 1..Len(recorded) :
                 ApeItemInside(apeFrameBuffer_', recorded[i] - 1)
    ]_vars

(* C21: extracting the text of a comment frame never takes the scan for    *)
(* the end of the description out of the frame's text bytes: where those   *)
(* hold no terminator, or there are none, the comment is the empty string. *)
C21_CommentScanBounded ==
  (call.op = "Load" /\ call.ret) =>
    \A i \in 0..(GetCommentCount(Store) - 1) : GetComment(Store, i) # kScanOverrun

\* the store s with the text-encoding byte of frame fr set to encoding
WithEncoding(s, fr, encoding) ==
  [s EXCEPT !.buf[fr.rawFrame + kFrameHdrSize] = encoding]

(* C22: a loaded text or comment frame whose text-encoding byte is 2       *)
(* (UTF-16BE) is not decoded as the same frame with encoding 1 (UTF-16     *)
(* with BOM) is: its text is not what that decoding gives.                 *)
C22_Utf16BENotDecoded ==
  (call.op = "Load" /\ call.ret) =>
    /\ \A k \in 1..Len(textFrames_) :
         LET fr == frames_[textFrames_[k]]
         IN  DataByte(Mem(Store), fr, kFrameHdrSize) = 2 =>
               TextFrameGetText(Mem(Store), fr, Version(Store))
                 # TextFrameGetText(Mem(WithEncoding(Store, fr, 1)), fr, Version(Store))
    /\ \A k \in 1..Len(commentFrames_) :
         LET fr == frames_[commentFrames_[k]]
         IN  DataByte(Mem(Store), fr, kFrameHdrSize) = 2 =>
               CommentFrameGetText(Mem(Store), fr, Version(Store))
                 # CommentFrameGetText(Mem(WithEncoding(Store, fr, 1)), fr, Version(Store))

\* the step taken is a read of the file by the Load under way
ReadsFile == load.pc \in { "opened", "readTag" } /\ load'.pc # load.pc

\* the step taken is the frame parse or the APE parse of the Load under way
Parses == load.pc \in { "closing", "parsedFrames" } /\ load'.pc # load.pc

\* the step taken is the task's close of the file
Closes == load.close = "running" /\ load'.close = "done"

(* C23: in a Load every read of the file is made before the task that      *)
(* closes the file is started; the task changes nothing of the store and   *)
(* the parse nothing of the file handle; and a Load that returns true has  *)
(* the task ended, the file closed and the store that of the whole Load.   *)
C23_CloseJoinsParse ==
  [][ /\ ReadsFile => load.close = "idle" /\ load.handle = "open"
      /\ Closes => Store' = Store /\ file' = file /\ load'.pc = load.pc
      /\ Parses => load'.handle = load.handle /\ load'.close = load.close /\ file' = file
      /\ (load'.pc = "returned" /\ call'.ret) =>
           /\ load'.close = "done" /\ load'.handle = "closed"
           /\ Store' = LoadTagData(load'.from, file', load'.fault, oobByte').store
    ]_vars

\* FileApeItem has been loaded step by step: the task has ended and the
\* call has returned true with the title and the APE item
C23_Witness ==
  /\ load.pc = "returned" /\ call.op = "Load" /\ call.ret /\ load.close = "done"
  /\ file = FileApeItem
  /\ GetText(Store, "Title") = << 72 >>
  /\ Len(apeTags_) = 1

(* C24: SetComment(i, "") with i < GetCommentCount() takes 1 off the       *)
(* comment count, leaves the comments before i as they were, moves each    *)
(* later comment down by one, leaves the frame count as it was and takes   *)
(* the frame's write bytes off the total.                                  *)
C24_DeleteCommentShifts ==
  [][ (call'.op = "SetComment" /\ call'.value = << >> /\ call'.index < GetCommentCount(Store)) =>
        LET i == call'.index
            fr == frames_[GetCommentFrameReferencePos(Store, i)]
        IN  /\ GetCommentCount(Store') = GetCommentCount(Store) - 1
            /\ \A j \in 0..(i - 1) : GetComment(Store', j) = GetComment(Store, j)
            /\ \A j \in i..(GetCommentCount(Store') - 1) :
                 GetComment(Store', j) = GetComment(Store, j + 1)
            /\ GetFrameCount(Store') = GetFrameCount(Store)
            /\ TotalWriteBytes(Store')
                 = TotalWriteBytes(Store) - GetWriteBytes(Mem(Store), fr, Version(Store))
    ]_vars

\* the first of the two comments of FileMixed has been deleted: one comment
\* is left, the former second one, among four frames
C24_Witness ==
  /\ call.op = "SetComment" /\ call.value = << >> /\ call.index = 0
  /\ file = FileMixed /\ edits = 1
  /\ GetCommentCount(Store) = 1 /\ GetComment(Store, 0) = << 100 >>
  /\ GetFrameCount(Store) = 4
  /\ TotalWriteBytes(Store) = Len(id3FrameBuffer_) - 2 - Len(NewCommentFrame(<< 99 >>, 3))

(* C25: a Load of a file whose header declares a frame section of          *)
(* 1024 * 1024 bytes or more returns false and reads no frame bytes.       *)
C25_SectionCapRejects ==
  (call.op = "Load" /\ GetSize(SubSeq(file, 1, kFileHeaderSize)) >= kReasonableSectionSize) =>
    ~call.ret /\ id3FrameBuffer_ = << >>

(* C26: a Load that returns false leaves no frames, no comments, no text   *)
(* of any type and a clean store, whatever the store held before, and a    *)
(* Write that follows it returns false and leaves the file and the store   *)
(* as they were.                                                           *)
C26_FailedLoadLeavesNothing ==
  [][ /\ (call'.op = "Load" /\ ~call'.ret /\ call'.stage # "diverges") =>
           /\ GetFrameCount(Store') = 0
           /\ GetCommentCount(Store') = 0
           /\ \A t \in TextTypes : GetText(Store', t) = << >>
           /\ ~IsDirty(Store')
      /\ (call.op = "Load" /\ ~call.ret /\ call.stage # "diverges" /\ call'.op = "Write") =>
           ~call'.ret /\ file' = file /\ Store' = Store
    ]_vars

\* a Load of FilePlain made after two SetText/SetComment calls has failed at
\* the read of the frame section: the buffer has the declared size, no
\* frame is left and the store is clean
C26_Witness ==
  /\ call.op = "Load" /\ ~call.ret /\ call.fault = "readFrames"
  /\ file = FilePlain /\ edits = 2 /\ writes = 0
  /\ id3FrameBuffer_ = Zeros(GetSize(fileHeader_)) /\ Len(id3FrameBuffer_) > 0
  /\ GetFrameCount(Store) = 0 /\ ~IsDirty(Store)

\* fr is in exactly one of the three states, and in Replaced only with a
\* buffer of more than one byte
InOneState(fr) ==
  /\ Cardinality({ st \in { "Unmodified", "Replaced", "MarkedForDelete" } :
                     \/ st = "Unmodified" /\ IsUnmodified(fr)
                     \/ st = "Replaced" /\ IsReplaced(fr)
                     \/ st = "MarkedForDelete" /\ IsMarkedForDelete(fr) }) = 1
  /\ IsReplaced(fr) => Len(fr.newFrame) > 1

(* C27: every frame is in exactly one of Unmodified, Replaced and          *)
(* MarkedForDelete.  A SetText or SetComment call takes a frame from       *)
(* Unmodified or Replaced to Replaced or to MarkedForDelete or leaves it,  *)
(* never changes a MarkedForDelete frame, and adds frames only as          *)
(* Replaced; the frame it wrote a value to is Replaced, the frame it       *)
(* deleted is MarkedForDelete.  After a Load every frame is Unmodified.    *)
C27_FrameStates ==
  [][ /\ \A i \in 1..Len(frames_') : InOneState(frames_'[i])
      /\ (call'.op \in { "SetText", "SetComment" }) =>
           /\ Len(frames_') >= Len(frames_)
           /\ \A i \in 1..Len(frames_) :
                /\ frames_'[i].rawFrame = frames_[i].rawFrame
                /\ IsReplaced(frames_[i]) => ~IsUnmodified(frames_'[i])
                /\ IsMarkedForDelete(frames_[i]) => frames_'[i] = frames_[i]
                /\ (call'.value = << >> /\ frames_'[i] # frames_[i]) =>
                     IsMarkedForDelete(frames_'[i])
                /\ (call'.value # << >> /\ frames_'[i] # frames_[i]) =>
                     IsReplaced(frames_'[i])
           /\ \A i \in (Len(frames_) + 1)..Len(frames_') :
                IsReplaced(frames_'[i]) /\ frames_'[i].rawFrame = 0
           /\ (call'.op = "SetText" /\ call'.value # << >>) =>
                IsReplaced(frames_'[GetTextFrameReferencePos(Store', call'.type)])
           /\ (call'.op = "SetComment" /\ call'.value # << >>) =>
                IsReplaced(frames_'[GetCommentFrameReferencePos(Store', call'.index)])
      /\ call'.op = "Load" =>
           \A i \in 1..Len(frames_') : IsUnmodified(frames_'[i])
    ]_vars

\* the album of FileMixed was replaced and then deleted: its frame is
\* MarkedForDelete with the first byte of the buffer it had as Replaced
C27_Witness ==
  /\ file = FileMixed /\ edits = 2 /\ call.op = "SetText" /\ call.value = << >>
  /\ call.type = "Album"
  /\ IsMarkedForDelete(frames_[2]) /\ frames_[2].newFrame = << 84 >>
  /\ frames_[2].rawFrame # 0
  /\ GetFrameCount(Store) = 4 /\ GetText(Store, "Album") = << >>

\* index holds strictly increasing positions of frames_
IncreasingInRange(index) ==
  /\ \A k \in 1..Len(index) : index[k] \in 1..Len(frames_)
  /\ \A k \in 1..(Len(index) - 1) : index[k] < index[k + 1]

(* C28: textFrames_ and commentFrames_ each hold strictly increasing       *)
(* positions of frames_ and share none; every frame textFrames_ leads to   *)
(* has an ID that begins with 'T', every frame commentFrames_ leads to is  *)
(* a "COMM" frame, and none of them is MarkedForDelete.                    *)
C28_IndexInvariant ==
  /\ IncreasingInRange(textFrames_)
  /\ IncreasingInRange(commentFrames_)
  /\ \A k \in 1..Len(textFrames_), m \in 1..Len(commentFrames_) :
       textFrames_[k] # commentFrames_[m]
  /\ \A k \in 1..Len(textFrames_) :
       LET fr == frames_[textFrames_[k]]
       IN  ~IsMarkedForDelete(fr) /\ FrameGetFrameID(Mem(Store), fr)[1] = 84
  /\ \A m \in 1..Len(commentFrames_) :
       LET fr == frames_[commentFrames_[m]]
       IN  ~IsMarkedForDelete(fr)
           /\ FrameGetFrameID(Mem(Store), fr) = GetFrameID("Comment")

\* FileMixed after a third comment and a title were added: the album and
\* the new title in the text index, the three comments in the comment index
C28_Witness ==
  /\ file = FileMixed /\ edits = 2 /\ writes = 0
  /\ textFrames_ = << 2, 6 >> /\ commentFrames_ = << 3, 4, 5 >>
  /\ IsReplaced(frames_[5]) /\ IsReplaced(frames_[6]) /\ IsUnmodified(frames_[1])

\* some frame of s is Replaced or MarkedForDelete
SomeFrameChanged(s) == \E i \in 1..Len(s.frames) : ~IsUnmodified(s.frames[i])

C30_ApeItemsOfLastLoad ==
  (call.op \in { "Load", "Write" } /\ call.ret) =>
    apeTags_ = ParseAPETags(apeFrameBuffer_, oobByte, << >>)

=============================================================================
